---- MODULE Spec2Model ----
(***************************************************************************)
(* State-machine model of the LLM council orchestrator                     *)
(* (backend/src/services/council.py, backend/src/models/council.py,        *)
(* backend/src/services/ollama_client.py).                                 *)
(*                                                                         *)
(* Granularity.  run_council is a coroutine on a single-threaded asyncio   *)
(* event loop: it can be interleaved with other coroutines only where it   *)
(* suspends, i.e. at the two asyncio.gather calls and at the awaited       *)
(* synthesis request.  Each action below is one such uninterrupted         *)
(* segment, written as the composition of the operators that model the     *)
(* functions the segment runs through.  `trace' records every value that   *)
(* update_stage assigns, so the values assigned inside a segment are kept  *)
(* even though no other coroutine can observe them.                        *)
(*                                                                         *)
(* Environment.  The inference backend answers a generation request with   *)
(* a well-typed reply (text, integer token counts) or the request fails    *)
(* (timeout, non-success status, transport error).  The text of a reply    *)
(* is arbitrary model output.                                              *)
(*                                                                         *)
(* CouncilSession.latency_stats and StageLatencyStats are used by          *)
(* services/council.py but declared nowhere in models/council.py; the      *)
(* slot is modelled after the SessionMetrics description of the design     *)
(* document (three per-stage slots and a running total).                   *)
(***************************************************************************)
EXTENDS Integers, Sequences, FiniteSets, TLC

\* Largest number of agents of a request explored.
MaxAgents == 2

\* Optional values: None is the empty tuple, Some(x) the one-element tuple.
None == << >>
Some(x) == << x >>

\* f"agent_{i + 1}" for the 0-based position i, here for the 1-based k.
AgentId(k) == <<"agent_1", "agent_2", "agent_3", "agent_4", "agent_5">>[k]

RECURSIVE SumSeq(_)
SumSeq(s) == IF s = << >> THEN 0 ELSE Head(s) + SumSeq(Tail(s))

\* Call by value: x is evaluated once and F is applied to the value.
Strict(x, F(_)) == CHOOSE r \in {F(v) : v \in {x}} : TRUE

Max2(a, b) == IF a >= b THEN a ELSE b
Min2(a, b) == IF a <= b THEN a ELSE b

(***************************************************************************)
(* Exceptions: [type, message, status_code].  str(e) is the message.       *)
(***************************************************************************)
Exc(type, message, status_code) ==
    [type |-> type, message |-> message, status_code |-> status_code]

IsException(r) == r.kind = "exception"
Raised(e) == [kind |-> "exception", exc |-> e]
Returned(v) == [kind |-> "value", value |-> v]

(***************************************************************************)
(* Inference gateway.  An outcome of the HTTP exchange with the backend is *)
(*   [net |-> "ok", body |-> reply]  or  [net |-> cause] with cause one of *)
(*   "timeout", "status" (with the code) and "transport".                  *)
(***************************************************************************)
\* OllamaClient.generate: the reply's JSON, or the failure as OllamaError.
OllamaGenerate(outcome) ==
    CASE outcome.net = "ok" -> Returned(outcome.body)
      [] outcome.net = "timeout" ->
            Raised(Exc("OllamaError", "Generation timeout", None))
      [] outcome.net = "status" ->
            Raised(Exc("OllamaError", "Ollama API error", Some(outcome.code)))
      [] OTHER ->
            Raised(Exc("OllamaError", "Connection error", None))

\* worker_routes.generate: what the worker answers to the master's POST.
\* Its GenerateResponse carries content, done, total_duration, eval_count;
\* a failure of its own backend call becomes an HTTP error status.
WorkerGenerate(outcome) ==
    LET r == OllamaGenerate(outcome) IN
    IF IsException(r)
    THEN [net |-> "status",
          code |-> IF r.exc.status_code = None THEN 500 ELSE r.exc.status_code[1]]
    ELSE [net |-> "ok",
          body |-> [content |-> r.value.response,
                    eval_count |-> r.value.eval_count]]

\* CouncilService._call_worker: only timeouts and error statuses are
\* translated; any other transport failure leaves as httpx raised it.
CallWorker(outcome) ==
    CASE outcome.net = "ok" -> Returned(outcome.body)
      [] outcome.net = "timeout" ->
            Raised(Exc("OllamaError", "Worker timeout", None))
      [] outcome.net = "status" ->
            Raised(Exc("OllamaError", "Worker error", Some(outcome.code)))
      [] OTHER ->
            Raised(Exc("ConnectError", "All connection attempts failed", None))

\* dict.get(key, default) on a reply modelled as a record.
Get(body, key, default) ==
    IF key \in DOMAIN body THEN body[key] ELSE default


(***************************************************************************)
(* Text returned by a model, described by what json.loads makes of it:     *)
(*   [json |-> "invalid"]                     not JSON                     *)
(*   [json |-> "array" | "number" | "string" | "null" | "bool"]            *)
(*   [json |-> "object", score |-> opt, reasoning |-> opt]                 *)
(* with opt None (member absent) or Some(v), v a JSON value [t |-> ...].   *)
(***************************************************************************)
JInt(v) == [t |-> "int", v |-> v]
\* A finite float; v is its integer part, which is what int() returns.
JFloat(v) == [t |-> "float", v |-> v]
\* 1e999 and the literal Infinity, which json.loads reads as float('inf').
JInf == [t |-> "inf"]
\* A JSON string; num is Some(k) when int() reads it as k, None otherwise.
JStr(s, num) == [t |-> "str", s |-> s, num |-> num]
JNull == [t |-> "null"]
JArr == [t |-> "array"]
JBool(b) == [t |-> "bool", v |-> IF b THEN 1 ELSE 0]

NotJson == [json |-> "invalid"]
JsonObject(score, reasoning) ==
    [json |-> "object", score |-> score, reasoning |-> reasoning]
JsonOther(kind) == [json |-> kind]
\* "" and "{}", the defaults of response.get for a reply without text.
EmptyText == [json |-> "invalid", empty |-> TRUE]
EmptyObject == JsonObject(None, None)
\* f"[Error: {result}]"
ErrorContent(e) == [json |-> "invalid", error |-> e.message]

\* int(x) on a JSON value.
PyInt(jv) ==
    CASE jv.t \in {"int", "float", "bool"} -> Returned(jv.v)
      [] jv.t = "inf" ->
            Raised(Exc("OverflowError", "cannot convert float infinity to integer", None))
      [] jv.t = "str" ->
            IF jv.num = None
            THEN Raised(Exc("ValueError", "invalid literal for int()", None))
            ELSE Returned(jv.num[1])
      [] OTHER ->
            Raised(Exc("TypeError", "int() argument must be a string or a number", None))

\* str(x) on a JSON value; a non-string prints as its type's name here.
PyStr(jv) == IF jv.t = "str" THEN jv.s ELSE jv.t

DefaultScore == 5
MinScore == 1
MaxScore == 10
ParseErrorReasoning == "Parse error - defaulting to neutral score"
NoReasoning == "No reasoning provided"

\* Faulty variant: the score is limited from above only.
ParsePairwiseResponse_NoLowerLimit(text) ==
    IF text.json = "invalid"
    THEN Returned([score |-> DefaultScore, reasoning |-> ParseErrorReasoning])
    ELSE IF text.json # "object"
    THEN Raised(Exc("AttributeError", "object has no attribute 'get'", None))
    ELSE
      LET n == IF text.score = None THEN Returned(DefaultScore)
               ELSE PyInt(text.score[1])
      IN  IF IsException(n)
          THEN IF n.exc.type \in {"TypeError", "ValueError"}
               THEN Returned([score |-> DefaultScore,
                              reasoning |-> ParseErrorReasoning])
               ELSE n
          ELSE Returned(
                 [score |-> Min2(MaxScore, n.value),
                  reasoning |-> IF text.reasoning = None THEN NoReasoning
                                ELSE PyStr(text.reasoning[1])])

(***************************************************************************)
(* CouncilService._parse_pairwise_response.  The except clause names       *)
(* JSONDecodeError, KeyError, TypeError and ValueError; anything else      *)
(* (AttributeError of data.get on a non-object, OverflowError of int)      *)
(* leaves the function.                                                    *)
(***************************************************************************)
ParsePairwiseResponse(text) ==
    IF text.json = "invalid"
    THEN Returned([score |-> DefaultScore, reasoning |-> ParseErrorReasoning])
    ELSE IF text.json # "object"
    THEN Raised(Exc("AttributeError", "object has no attribute 'get'", None))
    ELSE
      LET n == IF text.score = None THEN Returned(DefaultScore)
               ELSE PyInt(text.score[1])
      IN  IF IsException(n)
          THEN IF n.exc.type \in {"TypeError", "ValueError"}
               THEN Returned([score |-> DefaultScore,
                              reasoning |-> ParseErrorReasoning])
               ELSE n
          ELSE Returned(
                 [score |-> Max2(MinScore, Min2(MaxScore, n.value)),
                  reasoning |-> IF text.reasoning = None THEN NoReasoning
                                ELSE PyStr(text.reasoning[1])])


(***************************************************************************)
(* Data model (models/council.py).                                         *)
(***************************************************************************)
\* SessionStage
PENDING == "pending"
OPINIONS == "opinions"
REVIEW == "review"
SYNTHESIS == "synthesis"
COMPLETE == "complete"
ERROR == "error"

\* SessionTokenUsage()
NewTokenUsage ==
    [stage1_opinions |-> None, stage2_review |-> None, stage3_synthesis |-> None,
     total_prompt_tokens |-> 0, total_completion_tokens |-> 0, total_tokens |-> 0]

\* The latency slot of a session: one StageLatencyStats per stage and the
\* end-to-end duration.
NewLatencyStats ==
    [stage1_opinions |-> None, stage2_review |-> None, stage3_synthesis |-> None,
     total_duration_ms |-> 0]

\* CouncilSession(query=..., agents=...)
NewSession(query, agents, clock) ==
    [query |-> query, stage |-> PENDING,
     created_at |-> clock, updated_at |-> clock, agents |-> agents,
     opinions |-> << >>, reviews |-> << >>,
     token_usage |-> NewTokenUsage, latency_stats |-> NewLatencyStats,
     final_answer |-> None, error |-> None,
     hist |-> << PENDING >>]

\* CouncilSession.update_stage.  hist is not a field of the class: it is the
\* history of the values session.stage has held, kept for the properties.
UpdateStage(s, new_stage, clock) ==
    [s EXCEPT !.stage = new_stage, !.updated_at = clock,
              !.hist = Append(@, new_stage)]

\* AgentResponse(...)
AgentResponse(agent_id, agent_name, model, content, prompt_tokens, completion_tokens, tokens_used, duration_ms) ==
    [agent_id |-> agent_id, agent_name |-> agent_name, model |-> model,
     content |-> content, prompt_tokens |-> prompt_tokens,
     completion_tokens |-> completion_tokens, tokens_used |-> tokens_used,
     duration_ms |-> duration_ms]

\* ReviewRanking(...)
ReviewRanking(agent_id, score, reasoning) ==
    [agent_id |-> agent_id, score |-> score, reasoning |-> reasoning]

\* ReviewResult(...): the class declares reviewer_id, reviewer_name, rankings,
\* prompt_tokens and completion_tokens; the model= and duration_ms= keyword
\* arguments of the caller are not fields and are dropped by the constructor.
ReviewResult(reviewer_id, reviewer_name, model, rankings, prompt_tokens, completion_tokens, duration_ms) ==
    [reviewer_id |-> reviewer_id, reviewer_name |-> reviewer_name,
     rankings |-> rankings, prompt_tokens |-> prompt_tokens,
     completion_tokens |-> completion_tokens]

\* TokenUsage(...)
TokenUsage(prompt_tokens, completion_tokens, total_tokens) ==
    [prompt_tokens |-> prompt_tokens, completion_tokens |-> completion_tokens,
     total_tokens |-> total_tokens]

\* getattr(item, name, default)
GetAttr(item, name, default) ==
    IF name \in DOMAIN item THEN item[name] ELSE default

\* Sum of attribute `name' over the items whose model is in `models'.
RECURSIVE SumAttr(_, _, _)
SumAttr(list, name, models) ==
  Strict(list, LAMBDA items :
    IF items = << >> THEN 0
    ELSE (IF GetAttr(Head(items), "model", "unknown") \in models
          THEN GetAttr(Head(items), name, 0) ELSE 0)
         + SumAttr(Tail(items), name, models))

ModelsOf(items) ==
    {GetAttr(items[k], "model", "unknown") : k \in DOMAIN items}

\* CouncilService._calculate_stage_usage
CalculateStageUsage(stage, list) ==
  Strict(list, LAMBDA items :
    LET all == ModelsOf(items)
        total_prompt == SumAttr(items, "prompt_tokens", all)
        total_completion == SumAttr(items, "completion_tokens", all)
    IN  [stage |-> stage,
         total_prompt_tokens |-> total_prompt,
         total_completion_tokens |-> total_completion,
         total_tokens |-> total_prompt + total_completion,
         by_model |->
            [m \in all |->
                TokenUsage(SumAttr(items, "prompt_tokens", {m}),
                           SumAttr(items, "completion_tokens", {m}),
                           SumAttr(items, "prompt_tokens", {m})
                             + SumAttr(items, "completion_tokens", {m}))]])

\* One stage's contribution to a session total (0 while the slot is unset).
SlotTotal(slot, name) == IF slot = None THEN 0 ELSE slot[1][name]

\* Faulty variant: the stage totals are added to the running totals.
UpdateTotalUsage_Accumulates(session) ==
  Strict(session, LAMBDA s :
    LET u == s.token_usage
        total_prompt == u.total_prompt_tokens
                        + SlotTotal(u.stage1_opinions, "total_prompt_tokens")
                        + SlotTotal(u.stage2_review, "total_prompt_tokens")
                        + SlotTotal(u.stage3_synthesis, "total_prompt_tokens")
        total_completion ==
                        u.total_completion_tokens
                        + SlotTotal(u.stage1_opinions, "total_completion_tokens")
                        + SlotTotal(u.stage2_review, "total_completion_tokens")
                        + SlotTotal(u.stage3_synthesis, "total_completion_tokens")
    IN  [s EXCEPT !.token_usage.total_prompt_tokens = total_prompt,
                  !.token_usage.total_completion_tokens = total_completion,
                  !.token_usage.total_tokens = total_prompt + total_completion])

\* CouncilService._update_total_usage
UpdateTotalUsage(session) ==
  Strict(session, LAMBDA s :
    LET u == s.token_usage
        total_prompt == SlotTotal(u.stage1_opinions, "total_prompt_tokens")
                        + SlotTotal(u.stage2_review, "total_prompt_tokens")
                        + SlotTotal(u.stage3_synthesis, "total_prompt_tokens")
        total_completion ==
                        SlotTotal(u.stage1_opinions, "total_completion_tokens")
                        + SlotTotal(u.stage2_review, "total_completion_tokens")
                        + SlotTotal(u.stage3_synthesis, "total_completion_tokens")
    IN  [s EXCEPT !.token_usage.total_prompt_tokens = total_prompt,
                  !.token_usage.total_completion_tokens = total_completion,
                  !.token_usage.total_tokens = total_prompt + total_completion])

\* CouncilService._calculate_stage_latency
CalculateStageLatency(stage, list) ==
  Strict(list, LAMBDA items :
    LET all == ModelsOf(items)
    IN  [stage |-> stage,
         total_duration_ms |-> SumAttr(items, "duration_ms", all),
         by_model |-> [m \in all |-> SumAttr(items, "duration_ms", {m})]])


\* Faulty variant: the end-to-end duration is the sum of the stage durations.
UpdateTotalLatency_SumsStages(session, clock) ==
  Strict(session, LAMBDA s :
    [s EXCEPT !.latency_stats.total_duration_ms =
        SumSeq([k \in 1..3 |->
           LET slot == << s.latency_stats.stage1_opinions,
                          s.latency_stats.stage2_review,
                          s.latency_stats.stage3_synthesis >>[k]
           IN  IF slot = None THEN 0 ELSE slot[1].total_duration_ms])])

\* CouncilService._update_total_latency: now - created_at, in milliseconds.
UpdateTotalLatency(session, clock) ==
  Strict(session, LAMBDA s :
    [s EXCEPT !.latency_stats.total_duration_ms = clock - s.created_at])

(***************************************************************************)
(* Generation calls.  worker_url is None (local gateway) or Some(url).     *)
(* An outcome o has o.hop = "link" when it is the master's POST to the     *)
(* worker that fails, "backend" when it is the exchange with the backend.  *)
(***************************************************************************)
Exchange(worker_url, o) ==
    IF worker_url = None THEN OllamaGenerate(o)
    ELSE IF o.hop = "link" THEN CallWorker(o)
    ELSE CallWorker(WorkerGenerate(o))

\* The key under which each gateway's reply carries the generated text.
TextKey(worker_url) == IF worker_url = None THEN "response" ELSE "content"

\* CouncilService._generate_opinion: the task's result, a value or the
\* exception it ends with.
GenerateOpinion(agent_id, agent, worker_url, o) ==
    LET r == Exchange(worker_url, o) IN
    IF IsException(r) THEN r
    ELSE
      LET raw_content == Get(r.value, TextKey(worker_url), EmptyText)
          prompt_tokens == Get(r.value, "prompt_eval_count", 0)
          completion_tokens == Get(r.value, "eval_count", 0)
      IN  Returned(AgentResponse(agent_id, agent.name, agent.model,
                                 raw_content, prompt_tokens, completion_tokens,
                                 prompt_tokens + completion_tokens, o.ms))

\* CouncilService._generate_pairwise_review
GeneratePairwiseReview(reviewer_id, reviewer_name, model, target_id, worker_url, o) ==
    LET r == Exchange(worker_url, o) IN
    IF IsException(r) THEN r
    ELSE
      LET raw_content == Get(r.value, TextKey(worker_url), EmptyObject)
          prompt_tokens == Get(r.value, "prompt_eval_count", 0)
          completion_tokens == Get(r.value, "eval_count", 0)
          parsed == ParsePairwiseResponse(raw_content)
      IN  IF IsException(parsed) THEN parsed
          ELSE Returned([reviewer_id |-> reviewer_id,
                         target_id |-> target_id,
                         score |-> parsed.value.score,
                         reasoning |-> parsed.value.reasoning,
                         prompt_tokens |-> prompt_tokens,
                         completion_tokens |-> completion_tokens,
                         duration_ms |-> o.ms,
                         model |-> model])

(***************************************************************************)
(* Stage 1 (stage1_opinions), split at its asyncio.gather.                 *)
(***************************************************************************)
\* Faulty variant: the placeholder is emitted without the failure text.
OpinionPlaceholder_NoText(k, agent, e) ==
    AgentResponse(AgentId(k), agent.name, agent.model, EmptyText, 0, 0, 0, 0)

\* The error placeholder of an agent whose task ended with an exception.
OpinionPlaceholder(k, agent, e) ==
    AgentResponse(AgentId(k), agent.name, agent.model, ErrorContent(e), 0, 0, 0, 0)

\* Faulty variant: a failed task contributes no opinion.
CollectOpinions_DropsFailed(agents, results) ==
    LET ok == SelectSeq(results, LAMBDA r : ~IsException(r))
    IN  [k \in 1..Len(ok) |-> ok[k].value]

\* The loop over the gathered results.
CollectOpinions(agents, results) ==
    [k \in 1..Len(results) |->
        IF IsException(results[k])
        THEN OpinionPlaceholder(k, agents[k], results[k].exc)
        ELSE results[k].value]

\* Faulty variant: the usage slot of stage 1 is filled on entry.
Stage1Enter_RecordsUsage(s, clock) ==
    UpdateStage([s EXCEPT !.token_usage.stage1_opinions =
                             Some(CalculateStageUsage("opinions", << >>))],
                OPINIONS, clock)

Stage1Enter(s, clock) == UpdateStage(s, OPINIONS, clock)

Stage1Exit(s, results, clock) ==
  Strict(CollectOpinions(s.agents, results), LAMBDA opinions :
    LET s1 == [s EXCEPT !.opinions = opinions,
                        !.token_usage.stage1_opinions =
                            Some(CalculateStageUsage("opinions", opinions))]
        s2 == UpdateTotalUsage(s1)
        s3 == [s2 EXCEPT !.latency_stats.stage1_opinions =
                            Some(CalculateStageLatency("opinions", opinions))]
        s4 == UpdateTotalLatency(s3, clock)
    IN  [s4 EXCEPT !.updated_at = clock])

(***************************************************************************)
(* Stage 2 (stage2_review), split at its asyncio.gather.                   *)
(***************************************************************************)
\* Faulty variant: the loops do not skip the reviewer itself.
PairSeq_WithSelf(n) ==
    [k \in 1..(n * n) |-> <<((k - 1) \div n) + 1, ((k - 1) % n) + 1>>]

\* The (reviewer, target) index pairs in the order the nested loops build
\* the tasks: reviewer-major, the reviewer itself skipped.
PairSeq(n) ==
    [k \in 1..(n * (n - 1)) |->
        LET i == ((k - 1) \div (n - 1)) + 1
            jj == ((k - 1) % (n - 1)) + 1
        IN  <<i, IF jj < i THEN jj ELSE jj + 1>>]

\* Faulty variant: a reviewer is identified by the model it runs.
TaskMetadata_IdFromModel(agents) ==
    LET pairs == PairSeq(Len(agents)) IN
    [k \in DOMAIN pairs |->
        [reviewer_id |-> agents[pairs[k][1]].model,
         reviewer_name |-> agents[pairs[k][1]].name,
         model |-> agents[pairs[k][1]].model]]

\* The (reviewer_id, reviewer_name, model) part of pairwise_tasks.
TaskMetadata(agents) ==
    LET pairs == PairSeq(Len(agents)) IN
    [k \in DOMAIN pairs |->
        [reviewer_id |-> AgentId(pairs[k][1]),
         reviewer_name |-> agents[pairs[k][1]].name,
         model |-> agents[pairs[k][1]].model]]

RECURSIVE GroupResults(_, _, _, _)
GroupResults(task_metadata, results, k, so_far) ==
  Strict(so_far, LAMBDA grouped :
    IF k > Len(task_metadata) THEN grouped
    ELSE IF IsException(results[k])
    THEN GroupResults(task_metadata, results, k + 1, grouped)
    ELSE
      LET rid == task_metadata[k].reviewer_id
          g1 == IF \E x \in DOMAIN grouped : grouped[x].reviewer_id = rid
                THEN grouped
                ELSE Append(grouped,
                            [reviewer_id |-> rid,
                             reviewer_name |-> task_metadata[k].reviewer_name,
                             model |-> task_metadata[k].model,
                             rankings |-> << >>,
                             prompt_tokens |-> 0,
                             completion_tokens |-> 0,
                             duration_ms |-> 0])
          x == CHOOSE y \in DOMAIN g1 : g1[y].reviewer_id = rid
          v == results[k].value
          g2 == [g1 EXCEPT
                   ![x].rankings =
                       Append(@, ReviewRanking(v.target_id, v.score, v.reasoning)),
                   ![x].prompt_tokens = @ + v.prompt_tokens,
                   ![x].completion_tokens = @ + v.completion_tokens,
                   ![x].duration_ms = @ + v.duration_ms]
      IN  GroupResults(task_metadata, results, k + 1, g2))

\* Faulty variant: a reviewer without any successful evaluation still gets
\* a Review, with no rankings.
AggregatePairwiseResults_KeepsEmpty(task_metadata, results) ==
    LET grouped == GroupResults(task_metadata, results, 1, << >>)
        reviewers == {task_metadata[k].reviewer_id : k \in DOMAIN task_metadata}
        Meta(i) == task_metadata[CHOOSE k \in DOMAIN task_metadata :
                                   task_metadata[k].reviewer_id = AgentId(i)]
    IN  [i \in 1..Cardinality(reviewers) |->
            IF \E x \in DOMAIN grouped : grouped[x].reviewer_id = AgentId(i)
            THEN LET g == grouped[CHOOSE x \in DOMAIN grouped :
                                    grouped[x].reviewer_id = AgentId(i)]
                 IN  ReviewResult(g.reviewer_id, g.reviewer_name, g.model,
                                  g.rankings, g.prompt_tokens,
                                  g.completion_tokens, g.duration_ms)
            ELSE ReviewResult(AgentId(i), Meta(i).reviewer_name, Meta(i).model,
                              << >>, 0, 0, 0)]

\* Faulty variant: the Reviews are emitted last reviewer first.
AggregatePairwiseResults_Reversed(task_metadata, results) ==
    LET grouped == GroupResults(task_metadata, results, 1, << >>)
        last == Len(grouped) + 1
    IN  [x \in DOMAIN grouped |->
            ReviewResult(grouped[last - x].reviewer_id,
                         grouped[last - x].reviewer_name,
                         grouped[last - x].model, grouped[last - x].rankings,
                         grouped[last - x].prompt_tokens,
                         grouped[last - x].completion_tokens,
                         grouped[last - x].duration_ms)]

\* Faulty variant: the Reviews share one pair of token counters.
AggregatePairwiseResults_SharedCounters(task_metadata, results) ==
  Strict(GroupResults(task_metadata, results, 1, << >>), LAMBDA grouped :
    [x \in DOMAIN grouped |->
        ReviewResult(grouped[x].reviewer_id, grouped[x].reviewer_name,
                     grouped[x].model, grouped[x].rankings,
                     SumSeq([y \in DOMAIN grouped |-> grouped[y].prompt_tokens]),
                     SumSeq([y \in DOMAIN grouped |->
                                grouped[y].completion_tokens]),
                     grouped[x].duration_ms)])

\* CouncilService._aggregate_pairwise_results
AggregatePairwiseResults(task_metadata, results) ==
  Strict(GroupResults(task_metadata, results, 1, << >>), LAMBDA grouped :
    [x \in DOMAIN grouped |->
        ReviewResult(grouped[x].reviewer_id, grouped[x].reviewer_name,
                     grouped[x].model, grouped[x].rankings,
                     grouped[x].prompt_tokens, grouped[x].completion_tokens,
                     grouped[x].duration_ms)])

\* Faulty variant: stage 2 announces itself with the stage after its own.
Stage2Enter_SkipsReview(s, clock) == UpdateStage(s, SYNTHESIS, clock)

Stage2Enter(s, clock) == UpdateStage(s, REVIEW, clock)

\* Faulty variant: stage 2 stores the reviews and records no statistics.
Stage2Exit_SkipsUsage(s, results, clock) ==
    [s EXCEPT !.reviews =
                 AggregatePairwiseResults(TaskMetadata(s.agents), results),
              !.updated_at = clock]

Stage2Exit(s, results, clock) ==
  Strict(AggregatePairwiseResults(TaskMetadata(s.agents), results),
         LAMBDA reviews :
    LET s1 == [s EXCEPT !.reviews = reviews,
                        !.token_usage.stage2_review =
                            Some(CalculateStageUsage("review", reviews))]
        s2 == UpdateTotalUsage(s1)
        s3 == [s2 EXCEPT !.latency_stats.stage2_review =
                            Some(CalculateStageLatency("review", reviews))]
        s4 == UpdateTotalLatency(s3, clock)
    IN  [s4 EXCEPT !.updated_at = clock])


(***************************************************************************)
(* Stage 3 (stage3_synthesis), split at the awaited generation call.       *)
(***************************************************************************)
\* All rankings of all reviews, in list order.
RECURSIVE AllRankings(_)
AllRankings(reviews) ==
    IF reviews = << >> THEN << >>
    ELSE Head(reviews).rankings \o AllRankings(Tail(reviews))

\* The scores dict, as the sequence of its (agent_id, scores) items in
\* insertion order.
RECURSIVE ScoreItems(_, _)
ScoreItems(rankings, so_far) ==
  Strict(so_far, LAMBDA scores :
    IF rankings = << >> THEN scores
    ELSE
      LET r == Head(rankings)
          sc == IF \E x \in DOMAIN scores : scores[x].agent_id = r.agent_id
                THEN scores
                ELSE Append(scores, [agent_id |-> r.agent_id, scores |-> << >>])
          x == CHOOSE y \in DOMAIN sc : sc[y].agent_id = r.agent_id
      IN  ScoreItems(Tail(rankings),
                     [sc EXCEPT ![x].scores = Append(@, r.score)]))

\* a's average is strictly greater than b's (sum/len compared exactly).
AvgGreater(a, b) ==
    SumSeq(a.scores) * Len(b.scores) > SumSeq(b.scores) * Len(a.scores)

\* Faulty variant: of the items of equal average the last comes first.
RECURSIVE SortByAverage_Unstable(_)
SortByAverage_Unstable(unsorted) ==
  Strict(unsorted, LAMBDA items :
    IF items = << >> THEN << >>
    ELSE
      LET x == CHOOSE y \in DOMAIN items :
                  /\ \A z \in DOMAIN items : ~AvgGreater(items[z], items[y])
                  /\ \A z \in (y + 1)..Len(items) : AvgGreater(items[y], items[z])
          rest == [k \in 1..(Len(items) - 1) |->
                      IF k < x THEN items[k] ELSE items[k + 1]]
      IN  << items[x] >> \o SortByAverage_Unstable(rest))

\* list.sort(key=average, reverse=True): descending and stable, so the
\* first item no other item beats comes first.
RECURSIVE SortByAverage(_)
SortByAverage(unsorted) ==
  Strict(unsorted, LAMBDA items :
    IF items = << >> THEN << >>
    ELSE
      LET x == CHOOSE y \in DOMAIN items :
                  /\ \A z \in DOMAIN items : ~AvgGreater(items[z], items[y])
                  /\ \A z \in 1..(y - 1) : AvgGreater(items[y], items[z])
          rest == [k \in 1..(Len(items) - 1) |->
                      IF k < x THEN items[k] ELSE items[k + 1]]
      IN  << items[x] >> \o SortByAverage(rest))

TopN == 3

\* Faulty variant: without any ranking the first agent is cited.
GetTopRankedAgents_FallsBack(reviews, top_n) ==
    IF AllRankings(reviews) = << >> THEN << AgentId(1) >>
    ELSE Strict(SortByAverage(ScoreItems(AllRankings(reviews), << >>)),
                LAMBDA averages :
                   [k \in 1..Min2(top_n, Len(averages)) |->
                       averages[k].agent_id])

\* Faulty variant: the averages are cut to top_n without being sorted.
GetTopRankedAgents_Unsorted(reviews, top_n) ==
    Strict(ScoreItems(AllRankings(reviews), << >>),
           LAMBDA averages :
              [k \in 1..Min2(top_n, Len(averages)) |-> averages[k].agent_id])

\* CouncilService._get_top_ranked_agents
GetTopRankedAgents(reviews, top_n) ==
    Strict(SortByAverage(ScoreItems(AllRankings(reviews), << >>)),
           LAMBDA averages :
              [k \in 1..Min2(top_n, Len(averages)) |-> averages[k].agent_id])

\* FinalAnswer(...)
FinalAnswer(content, chairman_model, tokens_used, duration_ms, sources_cited) ==
    [content |-> content, chairman_model |-> chairman_model,
     tokens_used |-> tokens_used, duration_ms |-> duration_ms,
     sources_cited |-> sources_cited]

Stage3Enter(s, clock) == UpdateStage(s, SYNTHESIS, clock)

\* stage3_synthesis from the reply of the synthesis call to the last
\* statistics update.
Stage3Record(s, model, response, duration_ms, clock) ==
    LET prompt_tokens == Get(response, "prompt_eval_count", 0)
        completion_tokens == Get(response, "eval_count", 0)
        top_agents == GetTopRankedAgents(s.reviews, TopN)
        final_answer ==
            FinalAnswer(Get(response, "response", EmptyText), model,
                        prompt_tokens + completion_tokens, duration_ms,
                        top_agents)
        s1 == [s EXCEPT
                 !.final_answer = Some(final_answer),
                 !.token_usage.stage3_synthesis =
                    Some([stage |-> "synthesis",
                          total_prompt_tokens |-> prompt_tokens,
                          total_completion_tokens |-> completion_tokens,
                          total_tokens |-> prompt_tokens + completion_tokens,
                          by_model |->
                            [m \in {model} |->
                                TokenUsage(prompt_tokens, completion_tokens,
                                           prompt_tokens + completion_tokens)]])]
        s2 == UpdateTotalUsage(s1)
        s3 == [s2 EXCEPT !.latency_stats.stage3_synthesis =
                            Some([stage |-> "synthesis",
                                  total_duration_ms |-> duration_ms,
                                  by_model |-> [m \in {model} |-> duration_ms]])]
    IN  UpdateTotalLatency(s3, clock)

\* Faulty variant: stage3_synthesis returns without marking the session COMPLETE.
Stage3Exit_StaysInSynthesis(s, model, response, duration_ms, clock) ==
    Stage3Record(s, model, response, duration_ms, clock)

\* stage3_synthesis from the reply of the synthesis call to its return.
Stage3Exit(s, model, response, duration_ms, clock) ==
    UpdateStage(Stage3Record(s, model, response, duration_ms, clock),
                COMPLETE, clock)

\* Faulty variant: the except clause marks the session ERROR and drops the text.
RunCouncilExcept_NoText(s, e, clock) == UpdateStage(s, ERROR, clock)

\* Faulty variant: the except clause also discards the opinions.
RunCouncilExcept_DropsOpinions(s, e, clock) ==
    UpdateStage([s EXCEPT !.error = Some(e.message), !.opinions = << >>],
                ERROR, clock)

\* Faulty variant: the except clause also clears the usage of the review
\* stage.
RunCouncilExcept_ClearsUsage(s, e, clock) ==
    UpdateStage([s EXCEPT !.error = Some(e.message),
                          !.token_usage.stage2_review = None],
                ERROR, clock)

\* The except clause of run_council.
RunCouncilExcept(s, e, clock) ==
    UpdateStage([s EXCEPT !.error = Some(e.message)], ERROR, clock)


(***************************************************************************)
(* State.                                                                  *)
(***************************************************************************)
VARIABLES
    sessions,   \* CouncilService._sessions: session_id -> CouncilSession
    run,        \* session_id -> the frame of the run_council coroutine
    now,        \* datetime.now()
    env,        \* what the environment may do: requests, outcomes of calls
    probe,      \* input and result of a function examined on its own
    ws          \* session_id -> the frame of its council_websocket coroutine

vars == << sessions, run, now, env, probe, ws >>

\* The outcome of a generation call that has not resolved yet.
NoOutcome == [net |-> "pending"]

\* A task of an asyncio.gather that has not finished yet.
Pending == [kind |-> "pending"]

\* self.settings.chairman_model
SettingsChairmanModel == "phi3.5:mini"

\* agent.name or f"Agent_{i + 1}"
DefaultName(k) == <<"Agent_1", "Agent_2", "Agent_3", "Agent_4", "Agent_5">>[k]

\* CouncilService.create_session, without the store into _sessions.
CreateSession(request, clock) ==
    NewSession(request.query,
               [k \in DOMAIN request.selected_agents |->
                   [name |-> IF request.selected_agents[k].name = ""
                             THEN DefaultName(k)
                             ELSE request.selected_agents[k].name,
                    model |-> request.selected_agents[k].model]],
               clock)

\* Faulty variant: the id of the session stored last is handed out again.
NewSessionId_Reused ==
    IF DOMAIN sessions = {} THEN Cardinality(DOMAIN sessions) + 1
    ELSE Cardinality(DOMAIN sessions)

\* str(uuid4()): an id no stored session has.
NewSessionId == Cardinality(DOMAIN sessions) + 1

\* CouncilService.get_session: the stored session, or None (not found).
GetSession(session_id) ==
    IF session_id \in DOMAIN sessions THEN Some(sessions[session_id]) ELSE None

AllDone(tasks) == \A k \in DOMAIN tasks : tasks[k] # Pending

(***************************************************************************)
(* Environment of the exhaustive single-session specification.             *)
(***************************************************************************)
PlainText(t) == [json |-> "invalid", text |-> t]

OkReply(text, prompt_eval_count, eval_count, ms) ==
    [net |-> "ok", hop |-> "backend", ms |-> ms,
     body |-> [response |-> text, prompt_eval_count |-> prompt_eval_count,
               eval_count |-> eval_count]]
Timeout(hop) == [net |-> "timeout", hop |-> hop]
ErrorStatus(code) == [net |-> "status", hop |-> "backend", code |-> code]
TransportError(hop) == [net |-> "transport", hop |-> hop]

WorkerUrl == Some("http://worker:8000")

Request(n, models, chairman) ==
    [query |-> "q",
     selected_agents |->
        [k \in 1..n |-> [name |-> IF k = 1 THEN "" ELSE "Expert",
                         model |-> models[((k - 1) % Len(models)) + 1]]],
     chairman_model |-> chairman]

\* One run_council invocation, of every size up to MaxAgents: agents that all
\* share one model through the local gateway, agents of two models through
\* the worker.
BaseEnv ==
    [budget |-> 1,
     invocations |->
        {[request |-> Request(n, <<"m1">>, "phi3.5:latest"),
          worker_url |-> None] : n \in 1..MaxAgents}
        \cup
        {[request |-> Request(n, <<"m1", "m2">>, ""),
          worker_url |-> WorkerUrl] : n \in 1..MaxAgents},
     opinion_outcomes |->
        {OkReply(PlainText("answer"), 2, 3, 7), Timeout("backend")},
     review_outcomes |->
        {OkReply(JsonObject(Some(JInt(7)), Some(JStr("fine", None))), 1, 1, 4),
         OkReply(NotJson, 1, 1, 4),
         OkReply(JsonOther("array"), 1, 1, 4),
         ErrorStatus(503)},
     synthesis_outcomes |->
        {OkReply(PlainText("final"), 5, 6, 9), Timeout("backend"),
         ErrorStatus(500)}]

Init ==
    /\ sessions = << >>
    /\ run = << >>
    /\ now = 0
    /\ ws = << >>
    /\ env = BaseEnv
    /\ probe = None

(***************************************************************************)
(* Actions: the uninterrupted segments of run_council.                     *)
(***************************************************************************)
\* run_council from its call to the gather of stage 1: create_session, the
\* entry of stage1_opinions and the creation of one opinion task per agent.
RunCouncil(request, worker_url) ==
    /\ Cardinality(DOMAIN sessions) < env.budget
    /\ LET id == NewSessionId
           s == Stage1Enter(CreateSession(request, now), now)
           n == Len(s.agents)
       IN  /\ sessions' = (id :> s) @@ sessions
           /\ run' = (id :>
                 [pc |-> "gather_opinions",
                  worker_url |-> worker_url,
                  chairman_model |-> request.chairman_model,
                  opinion_tasks |-> [k \in 1..n |-> Pending],
                  opinion_out |-> [k \in 1..n |-> NoOutcome],
                  review_tasks |-> << >>,
                  review_out |-> << >>,
                  synthesis_out |-> None,
                  calls |-> [opinions |-> n, review |-> 0, synthesis |-> 0]])
                 @@ run
    /\ UNCHANGED << now, env, probe, ws >>

\* A gateway outcome a session can meet: a failure of the link to the
\* worker needs a worker.
Meets(worker_url, o) == o.hop = "link" => worker_url # None

\* Faulty variant: a finished opinion task appends its result to
\* session.opinions itself.
OpinionTaskDone_AppendsOnCompletion(id, k, o) ==
    /\ run[id].pc = "gather_opinions"
    /\ run[id].opinion_tasks[k] = Pending
    /\ Meets(run[id].worker_url, o)
    /\ LET r == GenerateOpinion(AgentId(k), sessions[id].agents[k],
                                run[id].worker_url, o)
       IN  /\ run' = [run EXCEPT ![id].opinion_tasks[k] = r,
                                 ![id].opinion_out[k] = o]
           /\ sessions' = [sessions EXCEPT ![id].opinions =
                 IF IsException(r) THEN @ ELSE Append(@, r.value)]
    /\ UNCHANGED << now, env, probe, ws >>

\* Faulty variant: the first opinion call of a session that fails is issued
\* a second time.
OpinionTaskDone_Retries(id, k, o) ==
    /\ run[id].pc = "gather_opinions"
    /\ run[id].opinion_tasks[k] = Pending
    /\ Meets(run[id].worker_url, o)
    /\ LET r == GenerateOpinion(AgentId(k), sessions[id].agents[k],
                                run[id].worker_url, o)
       IN  IF IsException(r)
              /\ run[id].calls.opinions = Len(sessions[id].agents)
           THEN run' = [run EXCEPT ![id].calls.opinions = @ + 1]
           ELSE run' = [run EXCEPT ![id].opinion_tasks[k] = r,
                                   ![id].opinion_out[k] = o]
    /\ UNCHANGED << sessions, now, env, probe, ws >>

\* One opinion task finishes: _generate_opinion from the reply (or the
\* failure) of its generation call to its return.
OpinionTaskDone(id, k, o) ==
    /\ run[id].pc = "gather_opinions"
    /\ run[id].opinion_tasks[k] = Pending
    /\ Meets(run[id].worker_url, o)
    /\ run' = [run EXCEPT
                 ![id].opinion_tasks[k] =
                     GenerateOpinion(AgentId(k), sessions[id].agents[k],
                                     run[id].worker_url, o),
                 ![id].opinion_out[k] = o]
    /\ UNCHANGED << sessions, now, env, probe, ws >>

\* The model asked for the synthesis: chairman_model or the configured one.
ChairmanModel(chairman_model) ==
    IF chairman_model = "" THEN SettingsChairmanModel ELSE chairman_model

\* Faulty variant: the gather of stage 1 re-raises the first exception of a task.
OpinionsGathered_Propagates(id) ==
    /\ run[id].pc = "gather_opinions"
    /\ AllDone(run[id].opinion_tasks)
    /\ \E k \in DOMAIN run[id].opinion_tasks :
          /\ IsException(run[id].opinion_tasks[k])
          /\ \A j \in 1..(k - 1) : ~IsException(run[id].opinion_tasks[j])
          /\ sessions' = [sessions EXCEPT ![id] =
                RunCouncilExcept(sessions[id], run[id].opinion_tasks[k].exc, now)]
    /\ run' = [run EXCEPT ![id].pc = "returned"]
    /\ UNCHANGED << now, env, probe, ws >>

\* Faulty variant: the gather of stage 1 returns only when every task has
\* returned a value.
OpinionsGathered_WaitsForSuccess(id) ==
    /\ run[id].pc = "gather_opinions"
    /\ \A k \in DOMAIN run[id].opinion_tasks :
          run[id].opinion_tasks[k] # Pending
            /\ ~IsException(run[id].opinion_tasks[k])
    /\ LET s2 == Stage2Enter(
                    Stage1Exit(sessions[id], run[id].opinion_tasks, now), now)
           pairwise_tasks == TaskMetadata(s2.agents)
       IN  IF pairwise_tasks # << >>
           THEN /\ sessions' = [sessions EXCEPT ![id] = s2]
                /\ run' = [run EXCEPT
                     ![id].pc = "gather_reviews",
                     ![id].review_tasks =
                         [k \in DOMAIN pairwise_tasks |-> Pending],
                     ![id].review_out =
                         [k \in DOMAIN pairwise_tasks |-> NoOutcome],
                     ![id].calls.review = Len(pairwise_tasks)]
           ELSE /\ sessions' = [sessions EXCEPT ![id] =
                                  Stage3Enter(Stage2Exit(s2, << >>, now), now)]
                /\ run' = [run EXCEPT ![id].pc = "await_synthesis",
                                      ![id].synthesis_out = Some(NoOutcome),
                                      ![id].calls.synthesis = 1]
    /\ UNCHANGED << now, env, probe, ws >>

\* Faulty variant: the gather of stage 1 returns when the first task has
\* finished and the tasks still running are cancelled; their calls stay in
\* flight.
OpinionsGathered_FirstCompleted(id) ==
    /\ run[id].pc = "gather_opinions"
    /\ \E k \in DOMAIN run[id].opinion_tasks : run[id].opinion_tasks[k] # Pending
    /\ LET tasks == [k \in DOMAIN run[id].opinion_tasks |->
                        IF run[id].opinion_tasks[k] = Pending
                        THEN [kind |-> "exception",
                              exc |-> [type |-> "CancelledError",
                                       message |-> "",
                                       status_code |-> None]]
                        ELSE run[id].opinion_tasks[k]]
           s1 == Stage1Exit(sessions[id], tasks, now)
           s2 == Stage2Enter(s1, now)
           pairwise_tasks == TaskMetadata(s2.agents)
       IN  IF pairwise_tasks # << >>
           THEN /\ sessions' = [sessions EXCEPT ![id] = s2]
                /\ run' = [run EXCEPT
                     ![id].pc = "gather_reviews",
                     ![id].opinion_tasks = tasks,
                     ![id].review_tasks =
                         [k \in DOMAIN pairwise_tasks |-> Pending],
                     ![id].review_out =
                         [k \in DOMAIN pairwise_tasks |-> NoOutcome],
                     ![id].calls.review = Len(pairwise_tasks)]
           ELSE /\ sessions' = [sessions EXCEPT ![id] =
                                  Stage3Enter(Stage2Exit(s2, << >>, now), now)]
                /\ run' = [run EXCEPT ![id].pc = "await_synthesis",
                                      ![id].opinion_tasks = tasks,
                                      ![id].synthesis_out = Some(NoOutcome),
                                      ![id].calls.synthesis = 1]
    /\ UNCHANGED << now, env, probe, ws >>

\* The gather of stage 1 returns: the rest of stage1_opinions, then
\* stage2_review up to its gather.  With a single agent there is no pairwise
\* task, the empty gather returns at once, and the segment runs on through
\* the rest of stage2_review to the synthesis call of stage3_synthesis.
OpinionsGathered(id) ==
    /\ run[id].pc = "gather_opinions"
    /\ AllDone(run[id].opinion_tasks)
    /\ LET s1 == Stage1Exit(sessions[id], run[id].opinion_tasks, now)
           s2 == Stage2Enter(s1, now)
           pairwise_tasks == TaskMetadata(s2.agents)
       IN  IF pairwise_tasks # << >>
           THEN /\ sessions' = [sessions EXCEPT ![id] = s2]
                /\ run' = [run EXCEPT
                     ![id].pc = "gather_reviews",
                     ![id].review_tasks =
                         [k \in DOMAIN pairwise_tasks |-> Pending],
                     ![id].review_out =
                         [k \in DOMAIN pairwise_tasks |-> NoOutcome],
                     ![id].calls.review = Len(pairwise_tasks)]
           ELSE /\ sessions' = [sessions EXCEPT ![id] =
                                  Stage3Enter(Stage2Exit(s2, << >>, now), now)]
                /\ run' = [run EXCEPT ![id].pc = "await_synthesis",
                                      ![id].synthesis_out = Some(NoOutcome),
                                      ![id].calls.synthesis = 1]
    /\ UNCHANGED << now, env, probe, ws >>

\* One pairwise task finishes: _generate_pairwise_review from the reply (or
\* the failure) of its generation call to its return.
ReviewTaskDone(id, k, o) ==
    /\ run[id].pc = "gather_reviews"
    /\ run[id].review_tasks[k] = Pending
    /\ Meets(run[id].worker_url, o)
    /\ LET agents == sessions[id].agents
           pair == PairSeq(Len(agents))[k]
       IN  run' = [run EXCEPT
                     ![id].review_tasks[k] =
                         GeneratePairwiseReview(
                            AgentId(pair[1]), agents[pair[1]].name,
                            agents[pair[1]].model, AgentId(pair[2]),
                            run[id].worker_url, o),
                     ![id].review_out[k] = o]
    /\ UNCHANGED << sessions, now, env, probe, ws >>

\* The gather of stage 2 returns: the rest of stage2_review, then
\* stage3_synthesis up to its generation call.
ReviewsGathered(id) ==
    /\ run[id].pc = "gather_reviews"
    /\ AllDone(run[id].review_tasks)
    /\ sessions' = [sessions EXCEPT ![id] =
          Stage3Enter(Stage2Exit(sessions[id], run[id].review_tasks, now), now)]
    /\ run' = [run EXCEPT ![id].pc = "await_synthesis",
                          ![id].synthesis_out = Some(NoOutcome),
                          ![id].calls.synthesis = 1]
    /\ UNCHANGED << now, env, probe, ws >>

\* Faulty variant: the synthesis call goes through the gateway of the session.
SynthesisReturns_ViaSessionGateway(id, o) ==
    /\ run[id].pc = "await_synthesis"
    /\ o.hop = "backend"
    /\ ~IsException(OllamaGenerate(o))
    /\ sessions' = [sessions EXCEPT ![id] =
          Stage3Exit(sessions[id], ChairmanModel(run[id].chairman_model),
                     Exchange(run[id].worker_url, o).value, o.ms, now)]
    /\ run' = [run EXCEPT ![id].pc = "returned",
                          ![id].synthesis_out = Some(o)]
    /\ UNCHANGED << now, env, probe, ws >>

\* The synthesis call (always self.ollama.generate) returns: the rest of
\* stage3_synthesis and the return of run_council.
SynthesisReturns(id, o) ==
    /\ run[id].pc = "await_synthesis"
    /\ o.hop = "backend"
    /\ ~IsException(OllamaGenerate(o))
    /\ sessions' = [sessions EXCEPT ![id] =
          Stage3Exit(sessions[id], ChairmanModel(run[id].chairman_model),
                     OllamaGenerate(o).value, o.ms, now)]
    /\ run' = [run EXCEPT ![id].pc = "returned",
                          ![id].synthesis_out = Some(o)]
    /\ UNCHANGED << now, env, probe, ws >>

\* Faulty variant: the except clause records the failure and the call is tried again.
SynthesisRaises_Retries(id, o) ==
    /\ run[id].pc = "await_synthesis"
    /\ o.hop = "backend"
    /\ IsException(OllamaGenerate(o))
    /\ sessions' = [sessions EXCEPT ![id] =
          RunCouncilExcept(sessions[id], OllamaGenerate(o).exc, now)]
    /\ run' = [run EXCEPT ![id].synthesis_out = Some(NoOutcome),
                          ![id].calls.synthesis = @ + 1]
    /\ UNCHANGED << now, env, probe, ws >>

\* Faulty variant: the failure is recorded on every stored session.
SynthesisRaises_FailsAll(id, o) ==
    /\ run[id].pc = "await_synthesis"
    /\ o.hop = "backend"
    /\ IsException(OllamaGenerate(o))
    /\ sessions' = [x \in DOMAIN sessions |->
          RunCouncilExcept(sessions[x], OllamaGenerate(o).exc, now)]
    /\ run' = [run EXCEPT ![id].pc = "returned",
                          ![id].synthesis_out = Some(o)]
    /\ UNCHANGED << now, env, probe, ws >>

\* The synthesis call raises: the exception leaves stage3_synthesis and is
\* handled by the except clause of run_council, which then returns.
SynthesisRaises(id, o) ==
    /\ run[id].pc = "await_synthesis"
    /\ o.hop = "backend"
    /\ IsException(OllamaGenerate(o))
    /\ sessions' = [sessions EXCEPT ![id] =
          RunCouncilExcept(sessions[id], OllamaGenerate(o).exc, now)]
    /\ run' = [run EXCEPT ![id].pc = "returned",
                          ![id].synthesis_out = Some(o)]
    /\ UNCHANGED << now, env, probe, ws >>

\* The environment calls run_council.
Start ==
    \E inv \in env.invocations : RunCouncil(inv.request, inv.worker_url)

OpinionCall ==
    \E id \in DOMAIN sessions, o \in env.opinion_outcomes :
        \E k \in DOMAIN run[id].opinion_tasks : OpinionTaskDone(id, k, o)

OpinionGather == \E id \in DOMAIN sessions : OpinionsGathered(id)

ReviewCall ==
    \E id \in DOMAIN sessions, o \in env.review_outcomes :
        \E k \in DOMAIN run[id].review_tasks : ReviewTaskDone(id, k, o)

ReviewGather == \E id \in DOMAIN sessions : ReviewsGathered(id)

SynthesisOk ==
    \E id \in DOMAIN sessions, o \in env.synthesis_outcomes :
        SynthesisReturns(id, o)

SynthesisFail ==
    \E id \in DOMAIN sessions, o \in env.synthesis_outcomes :
        SynthesisRaises(id, o)

Next ==
    \/ Start
    \/ OpinionCall
    \/ OpinionGather
    \/ ReviewCall
    \/ ReviewGather
    \/ SynthesisOk
    \/ SynthesisFail

Spec == Init /\ [][Next]_vars


(***************************************************************************)
(* Properties.                                                             *)
(***************************************************************************)
\* Any step the run_council coroutine of session id can take.
SessionStep(id) ==
    \/ \E o \in env.opinion_outcomes :
          \E k \in DOMAIN run[id].opinion_tasks : OpinionTaskDone(id, k, o)
    \/ OpinionsGathered(id)
    \/ \E o \in env.review_outcomes :
          \E k \in DOMAIN run[id].review_tasks : ReviewTaskDone(id, k, o)
    \/ ReviewsGathered(id)
    \/ \E o \in env.synthesis_outcomes : SynthesisReturns(id, o)
    \/ \E o \in env.synthesis_outcomes : SynthesisRaises(id, o)

StageOrder == << PENDING, OPINIONS, REVIEW, SYNTHESIS, COMPLETE >>

IsPrefix(h, full) ==
    /\ Len(h) <= Len(full)
    /\ \A k \in 1..Len(h) : h[k] = full[k]

SomePending(tasks) == \E k \in DOMAIN tasks : tasks[k] = Pending

Terminal(s) == s.stage \in {COMPLETE, ERROR}

\* C1: the values session.stage takes are PENDING, OPINIONS, REVIEW,
\* SYNTHESIS, COMPLETE in that order, or a proper prefix of that sequence
\* followed by ERROR; and the calls of two stages are never in flight
\* together: a pending opinion call only in stage OPINIONS with no review or
\* synthesis call yet, a pending review call only in stage REVIEW with every
\* opinion call resolved, a pending synthesis call only in stage SYNTHESIS
\* with every other call resolved.
C1_StageSequence ==
    \A id \in DOMAIN sessions :
        LET s == sessions[id]
            h == s.hist
            r == run[id]
        IN  /\ h # << >>
            /\ s.stage = h[Len(h)]
            /\ \/ IsPrefix(h, StageOrder)
               \/ /\ h[Len(h)] = ERROR
                  /\ Len(h) >= 2
                  /\ Len(h) - 1 < Len(StageOrder)
                  /\ IsPrefix(SubSeq(h, 1, Len(h) - 1), StageOrder)
            /\ SomePending(r.opinion_tasks) =>
                  /\ s.stage = OPINIONS
                  /\ r.review_tasks = << >>
                  /\ r.synthesis_out = None
            /\ SomePending(r.review_tasks) =>
                  /\ s.stage = REVIEW
                  /\ AllDone(r.opinion_tasks)
                  /\ r.synthesis_out = None
            /\ r.synthesis_out = Some(NoOutcome) =>
                  /\ s.stage = SYNTHESIS
                  /\ AllDone(r.opinion_tasks)
                  /\ AllDone(r.review_tasks)

\* A two-agent session that went through all five stages, with both reviews.
C1_Witness ==
    \E id \in DOMAIN sessions :
        /\ sessions[id].hist = StageOrder
        /\ Len(sessions[id].reviews) = 2

\* C2: COMPLETE and ERROR are terminal.  In a terminal stage the coroutine
\* has returned, no call is pending and no step of the session is possible;
\* and a step taken while a session is terminal leaves its stage, opinions,
\* reviews, final_answer and error and the number of calls issued for it
\* unchanged.
C2_Terminal ==
    /\ [](\A id \in DOMAIN sessions :
            Terminal(sessions[id]) =>
                /\ run[id].pc = "returned"
                /\ ~SomePending(run[id].opinion_tasks)
                /\ ~SomePending(run[id].review_tasks)
                /\ run[id].synthesis_out # Some(NoOutcome)
                /\ ~ENABLED SessionStep(id))
    /\ [][\A id \in DOMAIN sessions :
            Terminal(sessions[id]) =>
                /\ sessions'[id].stage = sessions[id].stage
                /\ sessions'[id].opinions = sessions[id].opinions
                /\ sessions'[id].reviews = sessions[id].reviews
                /\ sessions'[id].final_answer = sessions[id].final_answer
                /\ sessions'[id].error = sessions[id].error
                /\ run'[id].calls = run[id].calls]_vars

\* A session that ended in ERROR after its synthesis call failed.
C2_Witness ==
    \E id \in DOMAIN sessions :
        /\ sessions[id].stage = ERROR
        /\ run[id].pc = "returned"
        /\ run[id].calls.synthesis = 1


Stage1Exited(id) == run[id].pc # "gather_opinions"

\* C3: once stage1_opinions has exited, whatever calls failed, opinions has
\* one entry per agent, the k-th entry carries the id agent_k, and the ids
\* are pairwise distinct (also when agents share a model).
C3_OneOpinionPerAgent ==
    \A id \in DOMAIN sessions :
        Stage1Exited(id) =>
            LET ops == sessions[id].opinions IN
            /\ Len(ops) = Len(sessions[id].agents)
            /\ \A k \in DOMAIN ops : ops[k].agent_id = AgentId(k)
            /\ \A j, k \in DOMAIN ops : j # k => ops[j].agent_id # ops[k].agent_id

\* Two agents of the same model, the first call failed, the second succeeded.
C3_Witness ==
    \E id \in DOMAIN sessions :
        /\ Stage1Exited(id)
        /\ Len(sessions[id].agents) = 2
        /\ sessions[id].agents[1].model = sessions[id].agents[2].model
        /\ run[id].opinion_out[1].net # "ok"
        /\ run[id].opinion_out[2].net = "ok"

\* C4: after stage 1, the opinion of an agent whose call failed is a
\* placeholder that carries the text of that failure and has prompt_tokens,
\* completion_tokens, tokens_used and duration_ms 0; the opinion of an agent
\* whose call succeeded is what its own task returned, with the text, the
\* generated-token count and the duration of its own reply.
C4_FailureIsolated ==
    \A id \in DOMAIN sessions :
        Stage1Exited(id) =>
            \A k \in DOMAIN sessions[id].agents :
                LET op == sessions[id].opinions[k]
                    o == run[id].opinion_out[k]
                    t == run[id].opinion_tasks[k]
                    a == sessions[id].agents[k]
                IN  /\ op.agent_name = a.name
                    /\ op.model = a.model
                    /\ IF o.net # "ok"
                       THEN /\ IsException(t)
                            /\ op.content = ErrorContent(t.exc)
                            /\ op.content.error \in
                                 {"Generation timeout", "Ollama API error",
                                  "Connection error", "Worker timeout",
                                  "Worker error",
                                  "All connection attempts failed"}
                            /\ op.prompt_tokens = 0
                            /\ op.completion_tokens = 0
                            /\ op.tokens_used = 0
                            /\ op.duration_ms = 0
                       ELSE /\ ~IsException(t)
                            /\ op = t.value
                            /\ op.content = o.body.response
                            /\ op.completion_tokens = o.body.eval_count
                            /\ op.tokens_used =
                                 op.prompt_tokens + op.completion_tokens
                            /\ op.duration_ms = o.ms

\* Two agents after stage 1: the first call succeeded, the second failed.
C4_Witness ==
    \E id \in DOMAIN sessions :
        /\ Stage1Exited(id)
        /\ Len(sessions[id].agents) = 2
        /\ run[id].opinion_out[1].net = "ok"
        /\ run[id].opinion_out[2].net = "timeout"

\* C5: failed opinion or review calls never reach the orchestrator.  A
\* session is in ERROR only when its synthesis call failed; when the
\* synthesis call succeeded the session is COMPLETE with error unset; and
\* run_council returns only after it has issued its synthesis call, whatever
\* opinion and review calls failed.
C5_FailuresNotPropagated ==
    \A id \in DOMAIN sessions :
        LET s == sessions[id]
            r == run[id]
        IN  /\ (r.synthesis_out # None /\ r.synthesis_out[1].net = "ok") =>
                  (s.stage = COMPLETE /\ s.error = None)
            /\ (s.stage = ERROR \/ s.error # None) =>
                  /\ r.synthesis_out # None
                  /\ r.synthesis_out[1].net \notin {"ok", "pending"}
            /\ r.pc = "returned" =>
                  (r.synthesis_out # None /\ r.calls.synthesis = 1)
            /\ r.pc # "returned" => (s.stage # ERROR /\ s.error = None)

\* A session that is COMPLETE although an opinion call and a review call
\* failed.
C5_Witness ==
    \E id \in DOMAIN sessions :
        /\ sessions[id].stage = COMPLETE
        /\ sessions[id].error = None
        /\ \E k \in DOMAIN run[id].opinion_out :
              run[id].opinion_out[k].net = "timeout"
        /\ \E k \in DOMAIN run[id].review_out :
              run[id].review_out[k].net = "status"

RECURSIVE CountRankings(_)
CountRankings(reviews) ==
    IF reviews = << >> THEN 0
    ELSE Len(Head(reviews).rankings) + CountRankings(Tail(reviews))

\* C6: with n agents the reviews hold at most n*(n-1) rankings in all, a
\* reviewer has at most one Review and a Review at most one ranking per
\* target, and no ranking targets the reviewer of its own Review.
C6_PairwiseRankings ==
    \A id \in DOMAIN sessions :
        LET n == Len(sessions[id].agents)
            rv == sessions[id].reviews
        IN  /\ CountRankings(rv) <= n * (n - 1)
            /\ \A x, y \in DOMAIN rv :
                  x # y => rv[x].reviewer_id # rv[y].reviewer_id
            /\ \A x \in DOMAIN rv :
                  /\ \A a, b \in DOMAIN rv[x].rankings :
                        a # b => rv[x].rankings[a].agent_id
                                   # rv[x].rankings[b].agent_id
                  /\ \A a \in DOMAIN rv[x].rankings :
                        rv[x].rankings[a].agent_id # rv[x].reviewer_id

\* Two agents whose two pairwise calls both produced a ranking.
C6_Witness ==
    \E id \in DOMAIN sessions :
        /\ Len(sessions[id].agents) = 2
        /\ CountRankings(sessions[id].reviews) = 2


Stage2Exited(id) == run[id].pc \in {"await_synthesis", "returned"}

\* The reply text is a JSON object whose score is an integer and whose
\* reasoning is a string.
WellFormedEvaluation(text) ==
    /\ text.json = "object"
    /\ text.score # None
    /\ text.score[1].t = "int"
    /\ text.reasoning # None
    /\ text.reasoning[1].t = "str"

\* C8: after stage 2, every pairwise call whose generation succeeded has
\* exactly one ranking of its target in the Review of its reviewer, and when
\* the text was not a well-formed evaluation that ranking is the default
\* score with the parse-error reasoning.
C8_EveryEvaluationKept ==
    \A id \in DOMAIN sessions :
        Stage2Exited(id) =>
            \A k \in DOMAIN run[id].review_out :
                run[id].review_out[k].net = "ok" =>
                    LET pair == PairSeq(Len(sessions[id].agents))[k]
                        text == run[id].review_out[k].body.response
                        mine == {x \in DOMAIN sessions[id].reviews :
                                   sessions[id].reviews[x].reviewer_id
                                     = AgentId(pair[1])}
                    IN  /\ Cardinality(mine) = 1
                        /\ \A x \in mine :
                              LET rk == sessions[id].reviews[x].rankings
                                  hit == {a \in DOMAIN rk :
                                            rk[a].agent_id = AgentId(pair[2])}
                              IN  /\ Cardinality(hit) = 1
                                  /\ \A a \in hit :
                                        ~WellFormedEvaluation(text) =>
                                            /\ rk[a].score = DefaultScore
                                            /\ rk[a].reasoning
                                                 = ParseErrorReasoning

\* C9: final_answer is set exactly when the stage is COMPLETE; in particular
\* a session in ERROR carries no final_answer.
C9_FinalAnswerIffComplete ==
    \A id \in DOMAIN sessions :
        /\ (sessions[id].final_answer # None) <=> (sessions[id].stage = COMPLETE)
        /\ sessions[id].stage = ERROR => sessions[id].final_answer = None

\* A session that is COMPLETE and holds the text of its synthesis reply.
C9_Witness ==
    \E id \in DOMAIN sessions :
        /\ sessions[id].stage = COMPLETE
        /\ sessions[id].final_answer # None
        /\ sessions[id].final_answer[1].content
             = run[id].synthesis_out[1].body.response

\* C10: error is set exactly when the stage is ERROR; a session whose stage
\* raised has run_council returned, holds the text of the exception that
\* escaped, has ERROR as the last and only ERROR of its stage history, and
\* holds nothing that the rest of the interrupted stage would have written.
C10_ErrorHandling ==
    \A id \in DOMAIN sessions :
        LET s == sessions[id]
            r == run[id]
        IN  /\ (s.error # None) <=> (s.stage = ERROR)
            /\ s.stage = ERROR =>
                  /\ r.pc = "returned"
                  /\ r.synthesis_out # None
                  /\ IsException(OllamaGenerate(r.synthesis_out[1]))
                  /\ s.error = Some(OllamaGenerate(r.synthesis_out[1]).exc.message)
                  /\ s.error[1] \in {"Generation timeout", "Ollama API error",
                                     "Connection error"}
                  /\ s.hist[Len(s.hist)] = ERROR
                  /\ \A k \in 1..(Len(s.hist) - 1) : s.hist[k] # ERROR
                  /\ s.final_answer = None
                  /\ s.token_usage.stage3_synthesis = None
                  /\ s.latency_stats.stage3_synthesis = None

\* A two-agent session whose synthesis call timed out after both reviews
\* were recorded.
C10_Witness ==
    \E id \in DOMAIN sessions :
        /\ sessions[id].stage = ERROR
        /\ sessions[id].error = Some("Generation timeout")
        /\ Len(sessions[id].reviews) = 2
        /\ run[id].pc = "returned"

(***************************************************************************)
(* The parser on its own: every kind of text a model can return is handed  *)
(* to _parse_pairwise_response once.                                       *)
(***************************************************************************)
MaxProbeScore == 12

ProbeValues ==
    {JInt(v) : v \in (0 - 2)..MaxProbeScore}
      \cup {JFloat(7), JInf, JStr("7", Some(7)), JStr("high", None),
            JNull, JArr, JBool(TRUE)}

ProbeTexts ==
    {NotJson, EmptyText, PlainText("fine"), EmptyObject}
      \cup {JsonOther(kind) :
              kind \in {"array", "number", "string", "null", "bool"}}
      \cup {JsonObject(Some(v), r) :
              v \in ProbeValues,
              r \in {None, Some(JStr("fine", None)), Some(JNull)}}
      \cup {JsonObject(None, Some(JStr("fine", None)))}

InitParse ==
    /\ sessions = << >>
    /\ run = << >>
    /\ now = 0
    /\ ws = << >>
    /\ env = BaseEnv
    /\ \E text \in ProbeTexts : probe = Some([text |-> text, result |-> None])

\* One call of _parse_pairwise_response.
Parse ==
    /\ probe # None
    /\ probe[1].result = None
    /\ probe' = Some([probe[1] EXCEPT
                        !.result = Some(ParsePairwiseResponse(probe[1].text))])
    /\ UNCHANGED << sessions, run, now, env, ws >>

NextParse == Parse

SpecParse == InitParse /\ [][NextParse]_vars

\* C7: _parse_pairwise_response is total: for every text, JSON or not,
\* object or not, it returns a score in 1..10 together with a reasoning and
\* raises nothing.
C7_ParseTotal ==
    (probe # None /\ probe[1].result # None) =>
        LET res == probe[1].result[1] IN
        /\ ~IsException(res)
        /\ res.value.score \in MinScore..MaxScore
        /\ res.value.reasoning \in STRING


(***************************************************************************)
(* Several run_council invocations on one CouncilService, interleaved at   *)
(* their awaits.                                                           *)
(***************************************************************************)
MaxSessions == 2

\* A single agent through the local gateway or two agents through the
\* worker, up to MaxSessions times; opinion and synthesis calls may time out.
MultiEnv ==
    [budget |-> MaxSessions,
     invocations |->
        {[request |-> Request(1, <<"m1">>, "phi3.5:latest"),
          worker_url |-> None],
         [request |-> Request(2, <<"m1", "m2">>, ""),
          worker_url |-> WorkerUrl]},
     opinion_outcomes |->
        {OkReply(PlainText("answer"), 2, 3, 7), Timeout("backend")},
     review_outcomes |->
        {OkReply(JsonObject(Some(JInt(7)), Some(JStr("fine", None))), 1, 1, 4)},
     synthesis_outcomes |->
        {OkReply(PlainText("final"), 5, 6, 9), Timeout("backend")}]

InitMulti ==
    /\ sessions = << >>
    /\ run = << >>
    /\ now = 0
    /\ ws = << >>
    /\ env = MultiEnv
    /\ probe = None

SpecMulti == InitMulti /\ [][Next]_vars

\* C11: create_session stores a session that starts in PENDING under an id
\* no stored session has and replaces no other session; a stored session
\* stays stored and stays the same session (its query, agents and creation
\* time are kept and its stage history only grows), so get_session finds it
\* on every later call; and get_session finds nothing for an id that was
\* never created.
C11_SessionStore ==
    /\ [](\A id \in 1..(MaxSessions + 1) :
            /\ id \notin DOMAIN sessions => GetSession(id) = None
            /\ id \in DOMAIN sessions =>
                  /\ GetSession(id) = Some(sessions[id])
                  /\ sessions[id].hist[1] = PENDING)
    /\ [](\A inv \in env.invocations :
            CreateSession(inv.request, now).stage = PENDING)
    /\ [][/\ \A id \in DOMAIN sessions :
               /\ id \in DOMAIN sessions'
               /\ sessions'[id].query = sessions[id].query
               /\ sessions'[id].agents = sessions[id].agents
               /\ sessions'[id].created_at = sessions[id].created_at
               /\ IsPrefix(sessions[id].hist, sessions'[id].hist)
          /\ Cardinality(DOMAIN sessions') <= Cardinality(DOMAIN sessions) + 1
          /\ \A id \in DOMAIN sessions' \ DOMAIN sessions :
               GetSession(id) = None]_vars

\* A second session was created after the first one had completed, and both
\* are found.
C11_Witness ==
    /\ DOMAIN sessions = {1, 2}
    /\ GetSession(1) # None
    /\ GetSession(1)[1].stage = COMPLETE
    /\ GetSession(2) # None
    /\ GetSession(2)[1].stage = OPINIONS
    /\ GetSession(3) = None


\* C12: what get_session returns at any point between two uninterrupted
\* segments of the orchestrator is never torn: opinions has 0 or n entries,
\* stage REVIEW, SYNTHESIS or COMPLETE comes with n opinions, COMPLETE comes
\* with a final_answer, and opinions and reviews, once non-empty, are the
\* final lists (no later step changes them).
C12_NoTornRead ==
    /\ [](\A id \in DOMAIN sessions :
            LET v == GetSession(id)[1]
                n == Len(v.agents)
            IN  /\ Len(v.opinions) \in {0, n}
                /\ v.stage \in {REVIEW, SYNTHESIS, COMPLETE} =>
                      Len(v.opinions) = n
                /\ v.stage \in {PENDING, OPINIONS} => v.reviews = << >>
                /\ v.stage = COMPLETE => v.final_answer # None)
    /\ [][\A id \in DOMAIN sessions :
            /\ sessions[id].opinions # << >> =>
                  sessions'[id].opinions = sessions[id].opinions
            /\ sessions[id].reviews # << >> =>
                  sessions'[id].reviews = sessions[id].reviews]_vars

\* A read in the middle of the review stage: one of two pairwise calls has
\* returned, both opinions are there and reviews is still empty.
C12_Witness ==
    \E id \in DOMAIN sessions :
        LET v == GetSession(id)[1] IN
        /\ v.stage = REVIEW
        /\ Len(v.opinions) = 2
        /\ v.reviews = << >>
        /\ run[id].review_tasks[1] # Pending
        /\ run[id].review_tasks[2] = Pending


(***************************************************************************)
(* One session with one agent more than the exhaustive specification, so   *)
(* that a Review can hold two rankings.  Either the opinion calls return   *)
(* two different texts, or the pairwise calls may fail.                    *)
(***************************************************************************)
OrderEnv(opinion_outcomes, review_outcomes) ==
    [budget |-> 1,
     invocations |->
        {[request |-> Request(MaxAgents + 1, <<"m1", "m2">>, ""),
          worker_url |-> None]},
     opinion_outcomes |-> opinion_outcomes,
     review_outcomes |-> review_outcomes,
     synthesis_outcomes |->
        {OkReply(PlainText("final"), 5, 6, 9), Timeout("backend")}]

InitOrder ==
    /\ sessions = << >>
    /\ run = << >>
    /\ now = 0
    /\ ws = << >>
    /\ env \in
         {OrderEnv({OkReply(PlainText("a"), 2, 3, 7),
                    OkReply(PlainText("b"), 1, 2, 8)},
                   {OkReply(JsonObject(Some(JInt(7)), Some(JStr("fine", None))),
                            1, 1, 4)}),
          OrderEnv({OkReply(PlainText("a"), 2, 3, 7)},
                   {OkReply(JsonObject(Some(JInt(7)), Some(JStr("fine", None))),
                            1, 1, 4),
                    ErrorStatus(503)})}
    /\ probe = None

SpecOrder == InitOrder /\ [][Next]_vars

\* The index k of the agent whose id is agent_id.
IndexOf(agent_id) == CHOOSE k \in 1..5 : AgentId(k) = agent_id

\* C13: whatever the order in which the parallel calls completed, opinions
\* are in agent index order and opinion k is the result of call k; Reviews
\* are in increasing reviewer index, the rankings of a Review in increasing
\* target index; a ranking of target j in the Review of reviewer i is the
\* result of the pairwise call (i, j), and every pairwise task that returned
\* has its ranking there.
C13_IndexOrder ==
    \A id \in DOMAIN sessions :
        LET s == sessions[id]
            r == run[id]
            pairs == PairSeq(Len(s.agents))
        IN  /\ Stage1Exited(id) =>
                  \A k \in DOMAIN s.opinions :
                      /\ s.opinions[k].agent_id = AgentId(k)
                      /\ s.opinions[k].agent_name = s.agents[k].name
                      /\ IF r.opinion_out[k].net = "ok"
                         THEN s.opinions[k].content
                                = r.opinion_out[k].body.response
                         ELSE s.opinions[k].content
                                = ErrorContent(r.opinion_tasks[k].exc)
            /\ Stage2Exited(id) =>
                  /\ \A x, y \in DOMAIN s.reviews :
                        x < y => IndexOf(s.reviews[x].reviewer_id)
                                   < IndexOf(s.reviews[y].reviewer_id)
                  /\ \A x \in DOMAIN s.reviews :
                        LET rk == s.reviews[x].rankings IN
                        /\ \A a, b \in DOMAIN rk :
                              a < b => IndexOf(rk[a].agent_id)
                                         < IndexOf(rk[b].agent_id)
                        /\ \A a \in DOMAIN rk :
                              \E k \in DOMAIN pairs :
                                 /\ pairs[k] = << IndexOf(s.reviews[x].reviewer_id),
                                                  IndexOf(rk[a].agent_id) >>
                                 /\ ~IsException(r.review_tasks[k])
                                 /\ rk[a].score = r.review_tasks[k].value.score
                                 /\ rk[a].reasoning
                                      = r.review_tasks[k].value.reasoning
                  /\ \A k \in DOMAIN pairs :
                        ~IsException(r.review_tasks[k]) =>
                            \E x \in DOMAIN s.reviews :
                               /\ s.reviews[x].reviewer_id = AgentId(pairs[k][1])
                               /\ \E a \in DOMAIN s.reviews[x].rankings :
                                     s.reviews[x].rankings[a].agent_id
                                       = AgentId(pairs[k][2])

\* Three agents: the first reviewer lost its first pairwise call, the other
\* two reviewers hold two rankings each.
C13_Witness ==
    \E id \in DOMAIN sessions :
        /\ Stage2Exited(id)
        /\ Len(sessions[id].agents) = 3
        /\ IsException(run[id].review_tasks[1])
        /\ Len(sessions[id].reviews) = 3
        /\ Len(sessions[id].reviews[1].rankings) = 1
        /\ Len(sessions[id].reviews[2].rankings) = 2
        /\ Len(sessions[id].reviews[3].rankings) = 2


\* C14: sessions run by interleaved run_council invocations are independent:
\* a step that is not a step of session id (its frame is unchanged) leaves
\* every field of session id unchanged, at most one session changes in a
\* step, a session is in ERROR only through its own synthesis call, and a
\* session whose own synthesis call succeeded is COMPLETE with error unset
\* whatever happened to the others.
C14_SessionsIndependent ==
    /\ [][/\ \A id \in DOMAIN sessions :
               run'[id] = run[id] => sessions'[id] = sessions[id]
          /\ \A id, other \in DOMAIN sessions :
               (sessions'[id] # sessions[id]
                  /\ sessions'[other] # sessions[other]) => id = other]_vars
    /\ [](\A id \in DOMAIN sessions :
            /\ sessions[id].stage = ERROR =>
                  /\ run[id].synthesis_out # None
                  /\ run[id].synthesis_out[1].net \notin {"ok", "pending"}
            /\ (run[id].synthesis_out # None
                  /\ run[id].synthesis_out[1].net = "ok") =>
                  (sessions[id].stage = COMPLETE /\ sessions[id].error = None))

\* Two sessions of one service: the first ended in ERROR after one of its
\* opinion calls had failed too, the second is COMPLETE.
C14_Witness ==
    /\ DOMAIN sessions = {1, 2}
    /\ sessions[1].stage = ERROR
    /\ \E k \in DOMAIN run[1].opinion_out : run[1].opinion_out[k].net = "timeout"
    /\ sessions[2].stage = COMPLETE
    /\ sessions[2].error = None
    /\ sessions[2].final_answer # None


(***************************************************************************)
(* Progress.  Every generation call is bounded by the timeout of its       *)
(* client, so a pending call eventually returns or fails, and the event    *)
(* loop eventually resumes a coroutine whose await is over: each session   *)
(* that can take a step eventually takes one.                              *)
(***************************************************************************)
\* One run_council invocation of every size up to MaxAgents, local or
\* through the worker; every kind of call may fail.
LiveEnv ==
    [budget |-> 1,
     invocations |-> BaseEnv.invocations,
     opinion_outcomes |->
        {OkReply(PlainText("answer"), 2, 3, 7), Timeout("backend")},
     review_outcomes |->
        {OkReply(JsonObject(Some(JInt(7)), Some(JStr("fine", None))), 1, 1, 4),
         ErrorStatus(503)},
     synthesis_outcomes |->
        {OkReply(PlainText("final"), 5, 6, 9), Timeout("backend")}]

InitLive ==
    /\ sessions = << >>
    /\ run = << >>
    /\ now = 0
    /\ ws = << >>
    /\ env = LiveEnv
    /\ probe = None

SessionProgress(id) == id \in DOMAIN sessions /\ SessionStep(id)

SpecLive ==
    /\ InitLive
    /\ [][Next]_vars
    /\ \A id \in 1..LiveEnv.budget : WF_vars(SessionProgress(id))

\* C15: every session started by run_council eventually reaches COMPLETE or
\* ERROR; no started session stays forever in PENDING, OPINIONS, REVIEW or
\* SYNTHESIS.
C15_EventuallyTerminal ==
    \A id \in 1..LiveEnv.budget :
        (id \in DOMAIN sessions) ~>
            (id \in DOMAIN sessions /\ Terminal(sessions[id]))

\* A session has ended although an opinion call and a pairwise call of its
\* own had failed.
C15_Witness ==
    \E id \in DOMAIN sessions :
        /\ Terminal(sessions[id])
        /\ run[id].pc = "returned"
        /\ \E k \in DOMAIN run[id].opinion_out :
              run[id].opinion_out[k].net = "timeout"
        /\ \E k \in DOMAIN run[id].review_out :
              run[id].review_out[k].net = "status"


\* Every generation call of the session has returned a reply.
AllCallsSucceeded(id) ==
    /\ run[id].pc = "returned"
    /\ \A k \in DOMAIN run[id].opinion_out : run[id].opinion_out[k].net = "ok"
    /\ \A k \in DOMAIN run[id].review_out : run[id].review_out[k].net = "ok"
    /\ run[id].synthesis_out # None
    /\ run[id].synthesis_out[1].net = "ok"

\* C16: when every generation call succeeded, run_council returns a session
\* in COMPLETE with error unset, one opinion per selected agent (each the
\* reply of its own call), final_answer set, and token usage recorded for
\* the three stages.
C16_HappyPath ==
    \A id \in DOMAIN sessions :
        AllCallsSucceeded(id) =>
            LET s == sessions[id] IN
            /\ s.stage = COMPLETE
            /\ s.error = None
            /\ Len(s.opinions) = Len(s.agents)
            /\ \A k \in DOMAIN s.opinions :
                  s.opinions[k].content = run[id].opinion_out[k].body.response
            /\ s.final_answer # None
            /\ s.token_usage.stage1_opinions # None
            /\ s.token_usage.stage2_review # None
            /\ s.token_usage.stage3_synthesis # None

\* Two agents behind the worker, all five calls answered, both pairwise
\* replies well-formed.
C16_Witness ==
    \E id \in DOMAIN sessions :
        /\ AllCallsSucceeded(id)
        /\ Len(sessions[id].agents) = 2
        /\ run[id].worker_url # None
        /\ Len(sessions[id].reviews) = 2
        /\ sessions[id].stage = COMPLETE


\* C17: a session with exactly one agent issues no pairwise call; when its
\* opinion call and its synthesis call succeeded it is COMPLETE with an
\* empty reviews list and a final_answer that cites no agent.
C17_SingleAgent ==
    \A id \in DOMAIN sessions :
        Len(sessions[id].agents) = 1 =>
            /\ run[id].calls.review = 0
            /\ run[id].review_tasks = << >>
            /\ run[id].pc # "gather_reviews"
            /\ sessions[id].reviews = << >>
            /\ AllCallsSucceeded(id) =>
                  /\ sessions[id].stage = COMPLETE
                  /\ sessions[id].hist = StageOrder
                  /\ sessions[id].final_answer # None
                  /\ sessions[id].final_answer[1].sources_cited = << >>

\* The single agent's opinion call and the synthesis call were answered and
\* run_council has returned.
C17_Witness ==
    \E id \in DOMAIN sessions :
        /\ Len(sessions[id].agents) = 1
        /\ AllCallsSucceeded(id)
        /\ run[id].calls = [opinions |-> 1, review |-> 0, synthesis |-> 1]
        /\ sessions[id].final_answer # None


\* The pairwise tasks of reviewer i, as indices into the task list.
TasksOf(id, i) ==
    {k \in DOMAIN run[id].review_tasks :
        PairSeq(Len(sessions[id].agents))[k][1] = i}

\* C18: after the review stage a reviewer has a Review exactly when at least
\* one of its pairwise tasks returned (a reviewer all of whose tasks failed
\* has none), every Review holds at least one ranking, no two Reviews share
\* a reviewer_id, and there are at most as many Reviews as agents.
C18_ReviewsPerReviewer ==
    \A id \in DOMAIN sessions :
        Stage2Exited(id) =>
            LET s == sessions[id] IN
            /\ \A i \in DOMAIN s.agents :
                  (\E x \in DOMAIN s.reviews :
                       s.reviews[x].reviewer_id = AgentId(i))
                    <=> (\E k \in TasksOf(id, i) :
                            ~IsException(run[id].review_tasks[k]))
            /\ \A x \in DOMAIN s.reviews : Len(s.reviews[x].rankings) >= 1
            /\ \A x, y \in DOMAIN s.reviews :
                  x # y => s.reviews[x].reviewer_id # s.reviews[y].reviewer_id
            /\ Len(s.reviews) <= Len(s.agents)

\* Three agents: both pairwise calls of the first reviewer failed, the
\* second reviewer lost one of two, the third none.
C18_Witness ==
    \E id \in DOMAIN sessions :
        /\ Stage2Exited(id)
        /\ Len(sessions[id].agents) = 3
        /\ \A k \in TasksOf(id, 1) : IsException(run[id].review_tasks[k])
        /\ \E k \in TasksOf(id, 2) : IsException(run[id].review_tasks[k])
        /\ Len(sessions[id].reviews) = 2
        /\ Len(sessions[id].reviews[1].rankings) = 1
        /\ Len(sessions[id].reviews[2].rankings) = 2


\* The stage usages a session has recorded so far.
RecordedUsages(u) ==
    {slot[1] : slot \in {x \in {u.stage1_opinions, u.stage2_review,
                               u.stage3_synthesis} : x # None}}

\* C19: in every state a reader can observe, the session-wide token totals
\* are the sums of the totals of the stage usages recorded so far:
\* total_prompt_tokens and total_completion_tokens sum the stage values and
\* total_tokens is their sum; each recorded stage usage is consistent in the
\* same way.
C19_SessionTotals ==
    \A id \in DOMAIN sessions :
        LET u == sessions[id].token_usage
            P(slot) == IF slot = None THEN 0 ELSE slot[1].total_prompt_tokens
            C(slot) == IF slot = None THEN 0 ELSE slot[1].total_completion_tokens
        IN  /\ u.total_prompt_tokens =
                  P(u.stage1_opinions) + P(u.stage2_review)
                    + P(u.stage3_synthesis)
            /\ u.total_completion_tokens =
                  C(u.stage1_opinions) + C(u.stage2_review)
                    + C(u.stage3_synthesis)
            /\ u.total_tokens =
                  u.total_prompt_tokens + u.total_completion_tokens
            /\ \A st \in RecordedUsages(u) :
                  st.total_tokens
                    = st.total_prompt_tokens + st.total_completion_tokens

\* A completed session whose three stages all consumed tokens.
C19_Witness ==
    \E id \in DOMAIN sessions :
        LET u == sessions[id].token_usage IN
        /\ sessions[id].stage = COMPLETE
        /\ u.stage1_opinions # None /\ u.stage1_opinions[1].total_tokens > 0
        /\ u.stage2_review # None /\ u.stage2_review[1].total_tokens > 0
        /\ u.stage3_synthesis # None /\ u.stage3_synthesis[1].total_tokens > 0
        /\ u.total_tokens > u.stage3_synthesis[1].total_tokens


\* Sum of attribute name over the items whose emitting agent runs model m;
\* ModelOfItem(k) is the model of the agent that emitted item k.
SumByModel(items, name, ModelOfItem(_), m) ==
    SumSeq([k \in DOMAIN items |->
               IF ModelOfItem(k) = m THEN GetAttr(items[k], name, 0) ELSE 0])

\* A stage's usage and latency are its items grouped by the model of the
\* emitting agent.
GroupedByModel(usage, latency, items, durations, ModelOfItem(_)) ==
    LET models == {ModelOfItem(k) : k \in DOMAIN items} IN
    /\ DOMAIN usage.by_model = models
    /\ DOMAIN latency.by_model = models
    /\ \A m \in models :
          /\ usage.by_model[m].prompt_tokens
               = SumByModel(items, "prompt_tokens", ModelOfItem, m)
          /\ usage.by_model[m].completion_tokens
               = SumByModel(items, "completion_tokens", ModelOfItem, m)
          /\ latency.by_model[m]
               = SumByModel(durations, "duration_ms", ModelOfItem, m)
    /\ usage.total_prompt_tokens
         = SumSeq([k \in DOMAIN items |-> items[k].prompt_tokens])
    /\ usage.total_completion_tokens
         = SumSeq([k \in DOMAIN items |-> items[k].completion_tokens])
    /\ latency.total_duration_ms
         = SumSeq([k \in DOMAIN durations |-> durations[k].duration_ms])

\* The time reviewer i spent in its pairwise calls that returned.
ReviewDuration(id, i) ==
    LET t == run[id].review_tasks IN
    SumSeq([k \in DOMAIN t |->
               IF k \in TasksOf(id, i) /\ ~IsException(t[k])
               THEN t[k].value.duration_ms ELSE 0])

\* C20: the usage and the latency of the opinion stage and of the review
\* stage are the stage's items grouped by model: by_model has one entry per
\* distinct model of the emitting agents (the reviewers' models for the
\* review stage), each entry sums prompt_tokens, completion_tokens and
\* duration_ms of the items of that model, and the entries sum to the stage
\* totals.
C20_ByModel ==
    \A id \in DOMAIN sessions :
        LET s == sessions[id] IN
        /\ Stage1Exited(id) =>
              GroupedByModel(s.token_usage.stage1_opinions[1],
                             s.latency_stats.stage1_opinions[1],
                             s.opinions, s.opinions,
                             LAMBDA k : s.agents[k].model)
        /\ Stage2Exited(id) =>
              GroupedByModel(s.token_usage.stage2_review[1],
                             s.latency_stats.stage2_review[1],
                             s.reviews,
                             [x \in DOMAIN s.reviews |->
                                 [duration_ms |->
                                    ReviewDuration(id,
                                       IndexOf(s.reviews[x].reviewer_id))]],
                             LAMBDA x :
                                s.agents[IndexOf(s.reviews[x].reviewer_id)].model)

\* The opinion-stage half of C20 on its own.
C20_OpinionStageByModel ==
    \A id \in DOMAIN sessions :
        Stage1Exited(id) =>
            GroupedByModel(sessions[id].token_usage.stage1_opinions[1],
                           sessions[id].latency_stats.stage1_opinions[1],
                           sessions[id].opinions, sessions[id].opinions,
                           LAMBDA k : sessions[id].agents[k].model)


(***************************************************************************)
(* The ranking helpers of stage 3 on their own: sessions and lists of      *)
(* Reviews of councils larger than the cited top are handed to the end of  *)
(* stage3_synthesis and to _format_rankings_for_chairman.                  *)
(***************************************************************************)
\* What the reviewers do to the scores they give: None for a reviewer all of
\* whose calls fail, otherwise the amount it adds.  At most one reviewer
\* differs from the others.
ProbeBiases(n) ==
    {[i \in 1..n |-> Some(0)]}
      \cup {[i \in 1..n |-> IF i = r THEN b ELSE Some(0)] :
               r \in 1..n, b \in {None, Some(1)}}

\* The merit of a target: None when no evaluation of it succeeds.
ProbeBase == {None, Some(3), Some(7)}

\* The outcome of the pairwise call of reviewer i about target t.
ProbeReviewOutcome(base, bias, i, t) ==
    IF base[t] = None \/ bias[i] = None THEN Timeout("backend")
    ELSE OkReply(JsonObject(Some(JInt(base[t][1] + bias[i][1])),
                            Some(JStr("fine", None))), 1, 1, 4)

\* The results of the gather of stage 2 for a council of n local agents.
ProbeReviewResults(agents, base, bias) ==
    LET pairs == PairSeq(Len(agents)) IN
    [k \in DOMAIN pairs |->
        GeneratePairwiseReview(
            AgentId(pairs[k][1]), agents[pairs[k][1]].name,
            agents[pairs[k][1]].model, AgentId(pairs[k][2]), None,
            ProbeReviewOutcome(base, bias, pairs[k][1], pairs[k][2]))]

\* A session of n local agents at its synthesis call: run_council driven
\* through stage 1 and stage 2 with the given outcomes.
ProbeSession(n, base, bias) ==
    LET s0 == Stage1Enter(CreateSession(Request(n, <<"m1", "m2">>, ""), 0), 0)
        s1 == Stage1Exit(s0,
                 [k \in 1..n |->
                     GenerateOpinion(AgentId(k), s0.agents[k], None,
                                     OkReply(PlainText("answer"), 2, 3, 7))],
                 0)
        s2 == Stage2Exit(Stage2Enter(s1, 0),
                         ProbeReviewResults(s1.agents, base, bias), 0)
    IN  Stage3Enter(s2, 0)

\* The agents of a session of n agents.
ProbeAgents(n) == CreateSession(Request(n, <<"m1", "m2">>, ""), 0).agents

\* The permutations of 1..n.
Perms(n) ==
    {p \in [1..n -> 1..n] : \A a, b \in 1..n : p[a] = p[b] => a = b}

\* round(num / den) to an integer, ties to even: what the format
\* specification .1f does to ten times an average whose tenths are exact.
RoundHalfEven(num, den) ==
    LET q == num \div den
        r == num % den
    IN  IF 2 * r < den THEN q
        ELSE IF 2 * r > den THEN q + 1
        ELSE IF q % 2 = 0 THEN q ELSE q + 1

\* The position of an agent id in the order of the ids as strings
\* ("agent_1" < "agent_2" < ... up to nine agents).
IdRank(agent_id) == CHOOSE k \in 1..9 : AgentId(k) = agent_id

\* sorted(scores.items()): ascending by agent_id, the keys being distinct.
RECURSIVE SortById(_)
SortById(unsorted) ==
  Strict(unsorted, LAMBDA items :
    IF items = << >> THEN << >>
    ELSE
      LET x == CHOOSE y \in DOMAIN items :
                  \A z \in DOMAIN items :
                      IdRank(items[y].agent_id) <= IdRank(items[z].agent_id)
          rest == [k \in 1..(Len(items) - 1) |->
                      IF k < x THEN items[k] ELSE items[k + 1]]
      IN  << items[x] >> \o SortById(rest))

\* One line f"{agent_id}: Average score {avg:.1f}/10", the average kept in
\* tenths.
RankingLine(item) ==
    [agent_id |-> item.agent_id,
     tenths |-> IF item.scores = << >> THEN 0
                ELSE RoundHalfEven(10 * SumSeq(item.scores), Len(item.scores))]

\* Faulty variant: the lines follow the insertion order of the score map.
FormatRankingsForChairman_Unsorted(reviews) ==
    Strict(ScoreItems(AllRankings(reviews), << >>), LAMBDA items :
        [k \in DOMAIN items |-> RankingLine(items[k])])

\* CouncilService._format_rankings_for_chairman, as the list of its lines.
FormatRankingsForChairman(reviews) ==
    Strict(SortById(ScoreItems(AllRankings(reviews), << >>)), LAMBDA items :
        [k \in DOMAIN items |-> RankingLine(items[k])])

InitTop ==
    \E base \in [1..(MaxAgents + 2) -> ProbeBase],
       bias \in ProbeBiases(MaxAgents + 2) :
        probe = Some([kind |-> "top",
                      session |-> ProbeSession(MaxAgents + 2, base, bias)])

InitFormat ==
    \E base \in [1..(MaxAgents + 1) -> ProbeBase],
       bias \in ProbeBiases(MaxAgents + 1) :
        \E reviews \in {AggregatePairwiseResults(
                            TaskMetadata(ProbeAgents(MaxAgents + 1)),
                            ProbeReviewResults(ProbeAgents(MaxAgents + 1),
                                               base, bias))} :
            \E p \in Perms(Len(reviews)) :
                probe = Some([kind |-> "format",
                              reviews |-> reviews,
                              permuted |-> [k \in DOMAIN reviews |->
                                               reviews[p[k]]],
                              lines |-> None,
                              lines_permuted |-> None])

InitRank ==
    /\ sessions = << >>
    /\ run = << >>
    /\ now = 0
    /\ ws = << >>
    /\ env = BaseEnv
    /\ (InitTop \/ InitFormat)

\* The synthesis call of the session returns: the rest of stage3_synthesis.
Synthesize ==
    /\ probe # None
    /\ probe[1].kind = "top"
    /\ probe[1].session.stage = SYNTHESIS
    /\ \E o \in env.synthesis_outcomes :
          /\ ~IsException(OllamaGenerate(o))
          /\ probe' = Some([probe[1] EXCEPT !.session =
                Stage3Exit(@, SettingsChairmanModel, OllamaGenerate(o).value,
                           o.ms, now)])
    /\ UNCHANGED << sessions, run, now, env, ws >>

\* _format_rankings_for_chairman is called on the list and on the permuted
\* list.
Format ==
    /\ probe # None
    /\ probe[1].kind = "format"
    /\ probe[1].lines = None
    /\ probe' = Some([probe[1] EXCEPT
          !.lines = Some(FormatRankingsForChairman(probe[1].reviews)),
          !.lines_permuted = Some(FormatRankingsForChairman(probe[1].permuted))])
    /\ UNCHANGED << sessions, run, now, env, ws >>

NextRank ==
    \/ Synthesize
    \/ Format

SpecRank == InitRank /\ [][NextRank]_vars

\* The sessions in view: the stored ones and the one under examination.
SessionsInView ==
    {sessions[id] : id \in DOMAIN sessions}
      \cup (IF probe # None /\ "session" \in DOMAIN probe[1]
            THEN {probe[1].session} ELSE {})

\* The scores agent_id received in the reviews, in list order.
ReceivedScores(reviews, agent_id) ==
    LET all == AllRankings(reviews)
        mine == SelectSeq(all, LAMBDA r : r.agent_id = agent_id)
    IN  [k \in DOMAIN mine |-> mine[k].score]

\* The ids that received at least one ranking.
RankedIds(reviews) ==
    {AllRankings(reviews)[k].agent_id : k \in DOMAIN AllRankings(reviews)}

\* The mean score a received is strictly higher than the mean b received.
MeanHigher(reviews, a, b) ==
    SumSeq(ReceivedScores(reviews, a)) * Len(ReceivedScores(reviews, b))
      > SumSeq(ReceivedScores(reviews, b)) * Len(ReceivedScores(reviews, a))

\* C21: sources_cited of the FinalAnswer is the list of the top 3 agent ids
\* by mean received score, in descending order of mean: at most 3 entries
\* (all ranked agents when fewer than 3 were ranked), no duplicates, only
\* ids of agents that received at least one ranking, and no agent left out
\* has a strictly higher mean than an agent included.
C21_SourcesCited ==
    \A s \in SessionsInView :
        s.final_answer # None =>
            LET cited == s.final_answer[1].sources_cited
                ranked == RankedIds(s.reviews)
                included == {cited[k] : k \in DOMAIN cited}
            IN  /\ Len(cited) = Min2(TopN, Cardinality(ranked))
                /\ Len(cited) <= 3
                /\ \A a, b \in DOMAIN cited : cited[a] = cited[b] => a = b
                /\ included \subseteq ranked
                /\ \A a, b \in DOMAIN cited :
                      a < b => ~MeanHigher(s.reviews, cited[b], cited[a])
                /\ \A out \in ranked \ included : \A c \in included :
                      ~MeanHigher(s.reviews, out, c)

\* C21 witness: a final answer cites three agents while a fourth ranked
\* agent, of strictly lower mean than one of the cited, is left out, and
\* the cited are not in index order.
C21_Witness ==
    \E s \in SessionsInView :
        /\ s.final_answer # None
        /\ Len(s.final_answer[1].sources_cited) = 3
        /\ \E out \in RankedIds(s.reviews) :
              /\ \A k \in 1..3 : s.final_answer[1].sources_cited[k] # out
              /\ MeanHigher(s.reviews, s.final_answer[1].sources_cited[3], out)
        /\ IdRank(s.final_answer[1].sources_cited[1])
             > IdRank(s.final_answer[1].sources_cited[2])

\* The lines are those of the per-agent means of the reviews, listed in
\* ascending order of agent id.
LinesOfMeans(lines, reviews) ==
    /\ {lines[k].agent_id : k \in DOMAIN lines} = RankedIds(reviews)
    /\ \A k \in DOMAIN lines :
          lines[k].tenths =
             RoundHalfEven(10 * SumSeq(ReceivedScores(reviews, lines[k].agent_id)),
                           Len(ReceivedScores(reviews, lines[k].agent_id)))
    /\ \A a, b \in DOMAIN lines :
          a < b => IdRank(lines[a].agent_id) < IdRank(lines[b].agent_id)

\* C22: the mean-score computation is order-independent: for every list of
\* Reviews and every permutation of it, every agent receives the same sum
\* and the same count of scores, hence the same mean, and the formatted
\* ranking lines are the same lines in the same agent_id-sorted order.
C22_OrderIndependent ==
    (probe # None /\ probe[1].kind = "format" /\ probe[1].lines # None) =>
        LET reviews == probe[1].reviews
            permuted == probe[1].permuted
        IN  /\ RankedIds(reviews) = RankedIds(permuted)
            /\ \A a \in RankedIds(reviews) :
                  /\ SumSeq(ReceivedScores(reviews, a))
                       = SumSeq(ReceivedScores(permuted, a))
                  /\ Len(ReceivedScores(reviews, a))
                       = Len(ReceivedScores(permuted, a))
            /\ probe[1].lines = probe[1].lines_permuted
            /\ LinesOfMeans(probe[1].lines[1], reviews)
            /\ LinesOfMeans(probe[1].lines_permuted[1], permuted)

\* C22 witness: the lines of a list and of a permutation of it have been
\* formatted, the permutation changes the insertion order of the score map
\* and the order of the scores some agent received, and there are three
\* lines.
C22_Witness ==
    /\ probe # None
    /\ probe[1].kind = "format"
    /\ probe[1].lines # None
    /\ Len(probe[1].lines[1]) = 3
    /\ LET items == ScoreItems(AllRankings(probe[1].reviews), << >>)
           items_permuted == ScoreItems(AllRankings(probe[1].permuted), << >>)
       IN  /\ [k \in DOMAIN items |-> items[k].agent_id]
                # [k \in DOMAIN items_permuted |-> items_permuted[k].agent_id]
           /\ \E a \in RankedIds(probe[1].reviews) :
                 ReceivedScores(probe[1].reviews, a)
                   # ReceivedScores(probe[1].permuted, a)


(***************************************************************************)
(* One session under a clock that advances: a call that returns reports    *)
(* the time that passed since its stage started.  The pairwise calls all   *)
(* fail, at any time.                                                      *)
(***************************************************************************)
MaxClock == 3

TimedEnv ==
    [budget |-> 1,
     invocations |->
        {[request |-> Request(MaxAgents, <<"m1">>, ""), worker_url |-> None]},
     opinion_outcomes |->
        {OkReply(PlainText("answer"), 2, 3, ms) : ms \in 0..MaxClock}
          \cup {Timeout("backend")},
     review_outcomes |-> {ErrorStatus(503)},
     synthesis_outcomes |->
        {OkReply(PlainText("final"), 5, 6, ms) : ms \in 0..MaxClock}
          \cup {Timeout("backend")}]

InitTimed ==
    /\ sessions = << >>
    /\ run = << >>
    /\ now = 0
    /\ ws = << >>
    /\ env = TimedEnv
    /\ probe = None

\* datetime.now() between two steps: time passes.
Tick ==
    /\ now < MaxClock
    /\ now' = now + 1
    /\ UNCHANGED << sessions, run, env, probe, ws >>

\* duration_ms of a call that returns now: the time since start_time, which
\* is taken in the segment that last touched the session.
Elapsed(id, o) == o.net = "ok" => o.ms = now - sessions[id].updated_at

OpinionCallTimed ==
    \E id \in DOMAIN sessions, o \in env.opinion_outcomes :
        /\ Elapsed(id, o)
        /\ \E k \in DOMAIN run[id].opinion_tasks : OpinionTaskDone(id, k, o)

SynthesisOkTimed ==
    \E id \in DOMAIN sessions, o \in env.synthesis_outcomes :
        Elapsed(id, o) /\ SynthesisReturns(id, o)

NextTimed ==
    \/ Tick
    \/ Start
    \/ OpinionCallTimed
    \/ OpinionGather
    \/ ReviewCall
    \/ ReviewGather
    \/ SynthesisOkTimed
    \/ SynthesisFail

SpecTimed == InitTimed /\ [][NextTimed]_vars

\* The stage exits a session has been through: the latency slots set.
StageExits(s) ==
    {k \in 1..3 : << s.latency_stats.stage1_opinions,
                     s.latency_stats.stage2_review,
                     s.latency_stats.stage3_synthesis >>[k] # None}

\* C23: the end-to-end latency of a session is recomputed at each stage exit
\* as now - created_at, not as a sum of stage durations; it is >= 0 at every
\* stage exit and, the clock never going back, it never decreases from one
\* recomputation to the next while the session is in progress.
C23_EndToEndLatency ==
    [][ /\ now' >= now
        /\ \A id \in DOMAIN sessions' :
              LET after == sessions'[id] IN
              /\ after.latency_stats.total_duration_ms >= 0
              /\ id \notin DOMAIN sessions =>
                    /\ StageExits(after) = {}
                    /\ after.latency_stats.total_duration_ms = 0
              /\ id \in DOMAIN sessions =>
                    LET before == sessions[id] IN
                    /\ after.latency_stats.total_duration_ms
                         >= before.latency_stats.total_duration_ms
                    /\ after.created_at = before.created_at
                    /\ IF StageExits(after) # StageExits(before)
                       THEN after.latency_stats.total_duration_ms
                              = now - after.created_at
                       ELSE after.latency_stats.total_duration_ms
                              = before.latency_stats.total_duration_ms
      ]_vars

\* C23 witness: a session has completed, its end-to-end latency grew at a
\* stage exit after the first, and it is smaller than the duration recorded
\* for the opinion stage alone, whose calls ran side by side.
C23_Witness ==
    \E id \in DOMAIN sessions :
        LET s == sessions[id] IN
        /\ s.stage = COMPLETE
        /\ StageExits(s) = 1..3
        /\ s.latency_stats.total_duration_ms = MaxClock
        /\ s.latency_stats.stage3_synthesis[1].total_duration_ms > 0
        /\ s.latency_stats.stage1_opinions[1].total_duration_ms
             > s.latency_stats.total_duration_ms


\* The generation calls issued so far for session id.
CallsIssued(id) ==
    run[id].calls.opinions + run[id].calls.review + run[id].calls.synthesis

\* The calls of a sequence of outcomes that have resolved.
Resolved(outs) == {k \in DOMAIN outs : outs[k] # NoOutcome}

\* C24: no generation call is ever retried.  In a session of n agents
\* exactly one opinion call is issued per agent, at most one evaluation call
\* per ordered reviewer/target pair and at most one synthesis call, so at
\* most n + n*(n-1) + 1 calls, whatever calls fail; a call that has resolved,
\* with a reply or a failure, is not issued again.
C24_NoRetry ==
    /\ [](\A id \in DOMAIN sessions :
            LET n == Len(sessions[id].agents) IN
            /\ run[id].calls.opinions = n
            /\ Len(run[id].opinion_out) = n
            /\ run[id].calls.review \in {0, n * (n - 1)}
            /\ Len(run[id].review_out) = run[id].calls.review
            /\ run[id].calls.synthesis \in {0, 1}
            /\ (run[id].synthesis_out # None) = (run[id].calls.synthesis = 1)
            /\ CallsIssued(id) <= n + n * (n - 1) + 1)
    /\ [][\A id \in DOMAIN sessions :
            /\ \A k \in Resolved(run[id].opinion_out) :
                  run'[id].opinion_out[k] = run[id].opinion_out[k]
            /\ \A k \in Resolved(run[id].review_out) :
                  run'[id].review_out[k] = run[id].review_out[k]
            /\ (run[id].synthesis_out \notin {None, Some(NoOutcome)}) =>
                  run'[id].synthesis_out = run[id].synthesis_out
            /\ run'[id].calls.opinions = run[id].calls.opinions
            /\ run[id].calls.review # 0 =>
                  run'[id].calls.review = run[id].calls.review
            /\ run[id].calls.synthesis # 0 =>
                  run'[id].calls.synthesis = run[id].calls.synthesis]_vars

\* C24 witness: a session of two agents has ended in ERROR after an opinion
\* call, a pairwise call and the synthesis call failed, with exactly
\* 2 + 2 + 1 calls issued.
C24_Witness ==
    \E id \in DOMAIN sessions :
        /\ sessions[id].stage = ERROR
        /\ Len(sessions[id].agents) = 2
        /\ IsException(run[id].opinion_tasks[1])
        /\ IsException(run[id].review_tasks[2])
        /\ CallsIssued(id) = 5


(***************************************************************************)
(* One session of MaxAgents agents, local or through the worker, whose     *)
(* calls meet every kind of gateway failure: a timeout, a refused          *)
(* connection or an error status of the backend, and a timeout or a        *)
(* refused connection of the worker itself.                                *)
(***************************************************************************)
GatewayEnv ==
    [budget |-> 1,
     invocations |->
        {[request |-> Request(MaxAgents, <<"m1">>, ""), worker_url |-> None],
         [request |-> Request(MaxAgents, <<"m1", "m2">>, ""),
          worker_url |-> WorkerUrl]},
     opinion_outcomes |->
        {OkReply(PlainText("answer"), 2, 3, 7), Timeout("backend"),
         TransportError("backend"), ErrorStatus(503), Timeout("link"),
         TransportError("link")},
     review_outcomes |->
        {OkReply(JsonObject(Some(JInt(7)), Some(JStr("fine", None))), 1, 1, 4),
         TransportError("backend")},
     synthesis_outcomes |->
        {OkReply(PlainText("final"), 5, 6, 9), TransportError("backend"),
         ErrorStatus(500)}]

InitGateway ==
    /\ sessions = << >>
    /\ run = << >>
    /\ now = 0
    /\ ws = << >>
    /\ env = GatewayEnv
    /\ probe = None

SpecGateway == InitGateway /\ [][Next]_vars

\* Every call of the sequence has resolved, and none reached its backend.
AllUnreachable(outs) ==
    /\ outs # << >>
    /\ \A k \in DOMAIN outs : outs[k] # NoOutcome /\ outs[k].net = "transport"

\* The session has ended in ERROR with a message.
EndedInError(id) ==
    /\ sessions[id].stage = ERROR
    /\ sessions[id].error # None
    /\ sessions[id].error[1] # ""

\* C25: a stage-level infrastructure failure, the gateway being unreachable
\* for every call of a stage, propagates out of that stage: no call of a
\* later stage is issued and the session ends in ERROR with a non-empty
\* error message.
C25_OutagePropagates ==
    \A id \in DOMAIN sessions :
        /\ AllUnreachable(run[id].opinion_out) =>
              /\ run[id].calls.review = 0
              /\ run[id].calls.synthesis = 0
              /\ run[id].pc # "gather_opinions" => EndedInError(id)
        /\ AllUnreachable(run[id].review_out) =>
              /\ run[id].calls.synthesis = 0
              /\ run[id].pc # "gather_reviews" => EndedInError(id)
        /\ (run[id].synthesis_out # None
              /\ AllUnreachable(run[id].synthesis_out)) =>
              EndedInError(id)


\* What the opinion task k of session id obtains from outcome o through the
\* gateway selected by worker_url.
OpinionVia(id, k, worker_url, o) ==
    GenerateOpinion(AgentId(k), sessions[id].agents[k], worker_url, o)

\* What the pairwise task k of session id obtains from outcome o through
\* the gateway selected by worker_url.
ReviewVia(id, k, worker_url, o) ==
    LET agents == sessions[id].agents
        pair == PairSeq(Len(agents))[k]
    IN  GeneratePairwiseReview(AgentId(pair[1]), agents[pair[1]].name,
                               agents[pair[1]].model, AgentId(pair[2]),
                               worker_url, o)

\* Two task results carry the same generated text (for a pairwise task the
\* score and the reasoning parsed from it).
SameContent(a, b) ==
    /\ IsException(a) = IsException(b)
    /\ ~IsException(a) =>
          IF "content" \in DOMAIN a.value
          THEN a.value.content = b.value.content
          ELSE /\ a.value.score = b.value.score
               /\ a.value.reasoning = b.value.reasoning

\* Two task results carry the same token counts.
SameTokens(a, b) ==
    /\ IsException(a) = IsException(b)
    /\ ~IsException(a) =>
          /\ a.value.prompt_tokens = b.value.prompt_tokens
          /\ a.value.completion_tokens = b.value.completion_tokens

\* C26: the local and the remote gateway are substitutable: for the same
\* request and the same response of the backend, a stage obtains the same
\* content, prompt_tokens and completion_tokens whether the call goes
\* directly to the backend or through the worker's generate endpoint.
C26_Substitutable ==
    \A id \in DOMAIN sessions :
        /\ \A k \in DOMAIN run[id].opinion_out :
              LET o == run[id].opinion_out[k] IN
              o.net = "ok" =>
                 /\ run[id].opinion_tasks[k]
                      = OpinionVia(id, k, run[id].worker_url, o)
                 /\ SameContent(OpinionVia(id, k, None, o),
                                OpinionVia(id, k, WorkerUrl, o))
                 /\ SameTokens(OpinionVia(id, k, None, o),
                               OpinionVia(id, k, WorkerUrl, o))
        /\ \A k \in DOMAIN run[id].review_out :
              LET o == run[id].review_out[k] IN
              o.net = "ok" =>
                 /\ run[id].review_tasks[k]
                      = ReviewVia(id, k, run[id].worker_url, o)
                 /\ SameContent(ReviewVia(id, k, None, o),
                                ReviewVia(id, k, WorkerUrl, o))
                 /\ SameTokens(ReviewVia(id, k, None, o),
                               ReviewVia(id, k, WorkerUrl, o))

\* The part of C26 about the content alone.
C26_SameContent ==
    \A id \in DOMAIN sessions :
        /\ \A k \in DOMAIN run[id].opinion_out :
              run[id].opinion_out[k].net = "ok" =>
                 SameContent(OpinionVia(id, k, None, run[id].opinion_out[k]),
                             OpinionVia(id, k, WorkerUrl, run[id].opinion_out[k]))
        /\ \A k \in DOMAIN run[id].review_out :
              run[id].review_out[k].net = "ok" =>
                 SameContent(ReviewVia(id, k, None, run[id].review_out[k]),
                             ReviewVia(id, k, WorkerUrl, run[id].review_out[k]))


\* The session shows what its synthesis call obtained: r, a reply or the
\* exception the gateway raised.
SynthesisObtained(id, r) ==
    IF IsException(r)
    THEN /\ sessions[id].stage = ERROR
         /\ sessions[id].error = Some(r.exc.message)
    ELSE /\ sessions[id].final_answer # None
         /\ sessions[id].final_answer[1].tokens_used
              = Get(r.value, "prompt_eval_count", 0) + Get(r.value, "eval_count", 0)

\* The calls of the opinion stage and of the review stage of session id
\* went through the gateway the session was run with, and a failure of the
\* link to the worker is met only where there is a worker.
StageCallsViaSessionGateway(id) ==
    /\ \A k \in Resolved(run[id].opinion_out) :
          /\ run[id].opinion_tasks[k]
               = OpinionVia(id, k, run[id].worker_url, run[id].opinion_out[k])
          /\ run[id].opinion_out[k].hop = "link" => run[id].worker_url # None
    /\ \A k \in Resolved(run[id].review_out) :
          /\ run[id].review_tasks[k]
               = ReviewVia(id, k, run[id].worker_url, run[id].review_out[k])
          /\ run[id].review_out[k].hop = "link" => run[id].worker_url # None

\* The synthesis call of session id has resolved.
SynthesisResolved(id) ==
    run[id].synthesis_out \notin {None, Some(NoOutcome)}

\* C27 as stated: the gateway is selected per session by whether a worker
\* address is configured: with a worker address every generation call of
\* all three stages is dispatched to the remote worker, without one every
\* call goes to the local backend.
C27_GatewayPerSession ==
    \A id \in DOMAIN sessions :
        /\ StageCallsViaSessionGateway(id)
        /\ SynthesisResolved(id) =>
              SynthesisObtained(id, Exchange(run[id].worker_url,
                                             run[id].synthesis_out[1]))

\* C27, amended: in a session run with a worker address every opinion call
\* and every pairwise review call is dispatched to the remote worker, and in
\* a session run without one they go to the local backend; the synthesis
\* call goes to the local backend in every session.
C27_GatewayPerStage ==
    \A id \in DOMAIN sessions :
        /\ StageCallsViaSessionGateway(id)
        /\ SynthesisResolved(id) =>
              /\ run[id].synthesis_out[1].hop = "backend"
              /\ SynthesisObtained(id, OllamaGenerate(run[id].synthesis_out[1]))

\* C27 witness: a session run with a worker address has completed; an
\* opinion call and a pairwise call returned through the worker, another
\* opinion call found the worker unreachable, and the synthesis call
\* returned.
C27_Witness ==
    \E id \in DOMAIN sessions :
        /\ run[id].worker_url # None
        /\ sessions[id].stage = COMPLETE
        /\ run[id].opinion_out[1].net = "ok"
        /\ run[id].opinion_out[2].hop = "link"
        /\ \E k \in DOMAIN run[id].review_out : run[id].review_out[k].net = "ok"
        /\ run[id].synthesis_out[1].net = "ok"


\* The failure the gateway of a call itself meets: the outcome of the
\* exchange with the backend for the local gateway, and for the remote one
\* the failure of the link or what the worker answers.
FailureMet(worker_url, o) ==
    IF worker_url = None \/ o.hop = "link" THEN o ELSE WorkerGenerate(o)

\* r is the typed generation error for the failure met.
TypedGenerationError(r, met) ==
    /\ IsException(r)
    /\ r.exc.type = "OllamaError"
    /\ r.exc.status_code
         = (IF met.net = "status" THEN Some(met.code) ELSE None)

\* The calls of a sequence of outcomes that have failed.
Failed(outs) == {k \in Resolved(outs) : outs[k].net # "ok"}

\* C28 for the calls of session id that go through the gateway selected by
\* worker_url.
GenerationErrorsTyped(id) ==
    /\ \A k \in Failed(run[id].opinion_out) :
          TypedGenerationError(run[id].opinion_tasks[k],
                               FailureMet(run[id].worker_url,
                                          run[id].opinion_out[k]))
    /\ \A k \in Failed(run[id].review_out) :
          TypedGenerationError(run[id].review_tasks[k],
                               FailureMet(run[id].worker_url,
                                          run[id].review_out[k]))

\* C28: every failure of a generation call through either gateway, local
\* OllamaClient.generate or remote _call_worker, on a timeout, a transport
\* or connection failure or a non-success HTTP status surfaces as the typed
\* generation error OllamaError, carrying the HTTP status code when the
\* failure is a non-success status and no status code otherwise.
C28_TypedError ==
    \A id \in DOMAIN sessions :
        /\ GenerationErrorsTyped(id)
        /\ (SynthesisResolved(id) /\ run[id].synthesis_out[1].net # "ok") =>
              TypedGenerationError(OllamaGenerate(run[id].synthesis_out[1]),
                                   run[id].synthesis_out[1])

\* The part of C28 about the local gateway alone.
C28_LocalGateway ==
    \A id \in DOMAIN sessions :
        /\ run[id].worker_url = None => GenerationErrorsTyped(id)
        /\ (SynthesisResolved(id) /\ run[id].synthesis_out[1].net # "ok") =>
              TypedGenerationError(OllamaGenerate(run[id].synthesis_out[1]),
                                   run[id].synthesis_out[1])


\* C29: opinions are produced exactly once and are immutable afterwards:
\* session.opinions is empty until the opinion stage exits, and from that
\* exit onward the review stage, the synthesis stage and the error path
\* leave its length, its order and every field of every entry unchanged.
C29_OpinionsImmutable ==
    /\ [](\A id \in DOMAIN sessions :
            ~Stage1Exited(id) => sessions[id].opinions = << >>)
    /\ [][\A id \in DOMAIN sessions :
            Stage1Exited(id) =>
                sessions'[id].opinions = sessions[id].opinions]_vars

\* C29 witness: a session of two agents went through the review stage and
\* the synthesis stage and ended on the error path, and holds one opinion
\* an agent produced and one placeholder.
C29_Witness ==
    \E id \in DOMAIN sessions :
        /\ sessions[id].stage = ERROR
        /\ sessions[id].hist = << PENDING, OPINIONS, REVIEW, SYNTHESIS, ERROR >>
        /\ Len(sessions[id].opinions) = 2
        /\ Len(sessions[id].reviews) > 0
        /\ ~IsException(run[id].opinion_tasks[1])
        /\ IsException(run[id].opinion_tasks[2])


\* The positions of the opinions of session s that carry agent_id.
OpinionsOf(s, agent_id) ==
    {k \in DOMAIN s.opinions : s.opinions[k].agent_id = agent_id}

\* C30: agent ids are positional and stable for the whole session: the k-th
\* agent is agent_k in its Opinion, as reviewer_id of its Review and as
\* target id of the rankings about it, so every reviewer_id and every
\* ranking target id is the agent_id of exactly one Opinion of the session,
\* also when several agents run the same model.
C30_PositionalIds ==
    \A id \in DOMAIN sessions :
        LET s == sessions[id]
            pairs == PairSeq(Len(s.agents))
        IN  /\ Stage1Exited(id) =>
                  \A k \in DOMAIN s.agents :
                      /\ OpinionsOf(s, AgentId(k)) = {k}
                      /\ s.opinions[k].model = s.agents[k].model
            /\ Stage2Exited(id) =>
                  \A x \in DOMAIN s.reviews :
                      /\ Cardinality(OpinionsOf(s, s.reviews[x].reviewer_id)) = 1
                      /\ \A i \in OpinionsOf(s, s.reviews[x].reviewer_id) :
                            /\ s.reviews[x].reviewer_name = s.agents[i].name
                            /\ \A a \in DOMAIN s.reviews[x].rankings :
                                  LET target == s.reviews[x].rankings[a].agent_id IN
                                  /\ Cardinality(OpinionsOf(s, target)) = 1
                                  /\ \A t \in OpinionsOf(s, target) :
                                        \E k \in DOMAIN pairs :
                                           /\ pairs[k] = << i, t >>
                                           /\ ~IsException(run[id].review_tasks[k])

\* C30 witness: in a session of three agents the first and the third run
\* the same model; the review stage has exited with a Review of each, and
\* the Review of the third ranks the first.
C30_Witness ==
    \E id \in DOMAIN sessions :
        LET s == sessions[id] IN
        /\ Stage2Exited(id)
        /\ Len(s.agents) = 3
        /\ s.agents[1].model = s.agents[3].model
        /\ Len(s.reviews) = 3
        /\ s.reviews[3].reviewer_id = AgentId(3)
        /\ s.reviews[3].rankings[1].agent_id = AgentId(1)


(***************************************************************************)
(* The WebSocket progress observer: council_websocket, one coroutine per   *)
(* connection.  It shares the event loop with run_council, so it sees a    *)
(* session only as run_council left it at one of its awaits.  Between the  *)
(* call of send_json and its return other coroutines run; the message is   *)
(* built when send_json is called.                                         *)
(***************************************************************************)
\* for _ in range(30)
FindAttempts == 30

SessionStarted(s, session_id) ==
    [type |-> "session_started", session_id |-> session_id, stage |-> s.stage]

StageUpdate(s) ==
    [type |-> "stage_update", stage |-> s.stage,
     opinions_count |-> Len(s.opinions),
     reviews_count |-> Len(s.reviews),
     has_final_answer |-> s.final_answer # None]

\* session.model_dump(mode="json")
CompleteMessage(s) == [type |-> "complete", session |-> s]

ErrorMessage(message) == [type |-> "error", message |-> message]

\* The frame after websocket.accept().  entered is not in the code: it
\* records how many stages the session had been in when the initial state
\* had been sent.
Accepted ==
    [pc |-> "find", attempts |-> 0, last_stage |-> None, out |-> None,
     sent |-> << >>, connected |-> TRUE, entered |-> None]

\* A client opens /ws/{session_id}.
Connect(session_id) ==
    /\ session_id \notin DOMAIN ws
    /\ ws' = (session_id :> Accepted) @@ ws
    /\ UNCHANGED << sessions, run, now, env, probe >>

\* One round of the wait for the session: found, the initial state is handed
\* to send_json; not found, sleep one second.
TryFind(session_id) ==
    /\ session_id \in DOMAIN ws
    /\ ws[session_id].pc = "find"
    /\ ws[session_id].attempts < FindAttempts
    /\ ws' = [ws EXCEPT ![session_id] =
          IF GetSession(session_id) # None
          THEN [@ EXCEPT !.pc = "send_started", !.attempts = 0,
                         !.out = Some(SessionStarted(GetSession(session_id)[1],
                                                     session_id))]
          ELSE [@ EXCEPT !.attempts = @ + 1]]
    /\ UNCHANGED << sessions, run, now, env, probe >>

\* The wait is over without a session: the error message is handed to
\* send_json.
NotFound(session_id) ==
    /\ session_id \in DOMAIN ws
    /\ ws[session_id].pc = "find"
    /\ ws[session_id].attempts = FindAttempts
    /\ ws' = [ws EXCEPT ![session_id] =
          [@ EXCEPT !.pc = "send_error",
                    !.out = Some(ErrorMessage("Session not found"))]]
    /\ UNCHANGED << sessions, run, now, env, probe >>

\* The test of the while loop on the session object the frame holds, which
\* is the stored one: leave the loop and hand the final result to send_json,
\* or sleep.
LoopTest(frame, session_id) ==
    IF sessions[session_id].stage \in {COMPLETE, ERROR}
    THEN [frame EXCEPT !.pc = "send_complete",
                       !.out = Some(CompleteMessage(sessions[session_id]))]
    ELSE [frame EXCEPT !.pc = "sleep", !.out = None]

\* Faulty variant: last_stage is the stage the message carried.
Delivered_RecordsSentStage(session_id, pc) ==
    /\ session_id \in DOMAIN ws
    /\ ws[session_id].pc = pc
    /\ ws' = [ws EXCEPT ![session_id] =
          LoopTest([@ EXCEPT !.sent = Append(@, ws[session_id].out[1]),
                             !.last_stage = Some(ws[session_id].out[1].stage),
                             !.entered = IF @ = None
                                THEN Some(Len(sessions[session_id].hist))
                                ELSE @],
                   session_id)]
    /\ UNCHANGED << sessions, run, now, env, probe >>

\* send_json of the initial state or of a stage update returns: last_stage is
\* read from the session as it is now, then the loop is tested.
Delivered(session_id, pc) ==
    /\ session_id \in DOMAIN ws
    /\ ws[session_id].pc = pc
    /\ ws' = [ws EXCEPT ![session_id] =
          LoopTest([@ EXCEPT !.sent = Append(@, ws[session_id].out[1]),
                             !.last_stage = Some(sessions[session_id].stage),
                             !.entered = IF @ = None
                                THEN Some(Len(sessions[session_id].hist))
                                ELSE @],
                   session_id)]
    /\ UNCHANGED << sessions, run, now, env, probe >>

StartedSent(session_id) == Delivered(session_id, "send_started")

UpdateSent(session_id) == Delivered(session_id, "send_update")

\* Faulty variant: every poll sends an update.
Poll_AlwaysSends(session_id) ==
    /\ session_id \in DOMAIN ws
    /\ ws[session_id].pc = "sleep"
    /\ ws' = [ws EXCEPT ![session_id] =
          IF GetSession(session_id) = None
          THEN [@ EXCEPT !.pc = "send_error",
                         !.out = Some(ErrorMessage("AttributeError"))]
          ELSE [@ EXCEPT !.pc = "send_update",
                         !.out = Some(StageUpdate(GetSession(session_id)[1]))]]
    /\ UNCHANGED << sessions, run, now, env, probe >>

\* The sleep of the loop is over: get_session, then a stage update is handed
\* to send_json when the stage is not last_stage, else the loop is tested.
\* A session that is gone makes the loop test raise AttributeError, which
\* the except clause reports.
Poll(session_id) ==
    /\ session_id \in DOMAIN ws
    /\ ws[session_id].pc = "sleep"
    /\ ws' = [ws EXCEPT ![session_id] =
          IF GetSession(session_id) = None
          THEN [@ EXCEPT !.pc = "send_error",
                         !.out = Some(ErrorMessage("AttributeError"))]
          ELSE IF Some(GetSession(session_id)[1].stage) # @.last_stage
          THEN [@ EXCEPT !.pc = "send_update",
                         !.out = Some(StageUpdate(GetSession(session_id)[1]))]
          ELSE LoopTest(@, session_id)]
    /\ UNCHANGED << sessions, run, now, env, probe >>

\* Faulty variant: the final result is sent a second time.
LastSent_SendsTwice(session_id) ==
    /\ session_id \in DOMAIN ws
    /\ ws[session_id].pc \in {"send_complete", "send_error"}
    /\ ws' = [ws EXCEPT ![session_id] =
          IF \E j \in DOMAIN @.sent : @.sent[j] = @.out[1]
          THEN [@ EXCEPT !.pc = "closed", !.out = None,
                         !.sent = Append(@, ws[session_id].out[1])]
          ELSE [@ EXCEPT !.sent = Append(@, ws[session_id].out[1])]]
    /\ UNCHANGED << sessions, run, now, env, probe >>

\* send_json of the final result or of an error returns: the handler ends
\* and the finally clause closes the connection.
LastSent(session_id) ==
    /\ session_id \in DOMAIN ws
    /\ ws[session_id].pc \in {"send_complete", "send_error"}
    /\ ws' = [ws EXCEPT ![session_id] =
          [@ EXCEPT !.pc = "closed", !.out = None,
                    !.sent = Append(@, ws[session_id].out[1])]]
    /\ UNCHANGED << sessions, run, now, env, probe >>

\* The client has gone: send_json raises WebSocketDisconnect, nothing is
\* sent and the handler ends.
Disconnect(session_id) ==
    /\ session_id \in DOMAIN ws
    /\ ws[session_id].out # None
    /\ ws' = [ws EXCEPT ![session_id] =
          [@ EXCEPT !.pc = "closed", !.out = None, !.connected = FALSE]]
    /\ UNCHANGED << sessions, run, now, env, probe >>

\* One run_council invocation of every size up to MaxAgents through the
\* local gateway; every kind of call may fail.
ObservedEnv ==
    [budget |-> 1,
     invocations |->
        {[request |-> Request(n, <<"m1">>, ""), worker_url |-> None] :
            n \in 1..MaxAgents},
     opinion_outcomes |->
        {OkReply(PlainText("answer"), 2, 3, 7), Timeout("backend")},
     review_outcomes |->
        {OkReply(JsonObject(Some(JInt(7)), Some(JStr("fine", None))), 1, 1, 4),
         ErrorStatus(503)},
     synthesis_outcomes |->
        {OkReply(PlainText("final"), 5, 6, 9), Timeout("backend")}]

InitObserved ==
    /\ sessions = << >>
    /\ run = << >>
    /\ now = 0
    /\ ws = << >>
    /\ env = ObservedEnv
    /\ probe = None

ObserverStep(session_id) ==
    \/ TryFind(session_id)
    \/ NotFound(session_id)
    \/ StartedSent(session_id)
    \/ Poll(session_id)
    \/ UpdateSent(session_id)
    \/ LastSent(session_id)

Open == \E session_id \in 1..env.budget : Connect(session_id)

Observe == \E session_id \in 1..env.budget : ObserverStep(session_id)

Close == \E session_id \in 1..env.budget : Disconnect(session_id)

NextObserved ==
    \/ Start
    \/ OpinionCall
    \/ OpinionGather
    \/ ReviewCall
    \/ ReviewGather
    \/ SynthesisOk
    \/ SynthesisFail
    \/ Open
    \/ Observe
    \/ Close

SpecObserved == InitObserved /\ [][NextObserved]_vars


\* The observer of the session has sent its final result and ended.
Finished(session_id) ==
    /\ session_id \in DOMAIN ws
    /\ ws[session_id].pc = "closed"
    /\ ws[session_id].sent # << >>
    /\ ws[session_id].sent[Len(ws[session_id].sent)].type = "complete"

\* The positions in sent of the stage_update messages that name stage.
UpdatesNaming(session_id, stage) ==
    {j \in DOMAIN ws[session_id].sent :
        /\ ws[session_id].sent[j].type = "stage_update"
        /\ ws[session_id].sent[j].stage = stage}

\* C31: the observer attached to a session sends an update for each stage:
\* for every stage the session enters after the observer has sent its
\* initial state, the observer sends one stage_update message naming that
\* stage.  Stated of an observer that has run to its end.
C31_UpdatePerStage ==
    \A session_id \in DOMAIN ws :
        Finished(session_id) =>
            \A k \in (ws[session_id].entered[1] + 1)
                        ..Len(sessions[session_id].hist) :
                Cardinality(UpdatesNaming(session_id,
                                          sessions[session_id].hist[k])) = 1

\* The stages the observer has reported, in the order of its messages.
RECURSIVE StagesOf(_)
StagesOf(sent) ==
    IF sent = << >> THEN << >>
    ELSE IF sent[1].type \in {"session_started", "stage_update"}
    THEN << sent[1].stage >> \o StagesOf(Tail(sent))
    ELSE StagesOf(Tail(sent))

RECURSIVE IsSubsequence(_, _)
IsSubsequence(a, b) ==
    IF a = << >> THEN TRUE
    ELSE IF b = << >> THEN FALSE
    ELSE IF Head(a) = Head(b) THEN IsSubsequence(Tail(a), Tail(b))
    ELSE IsSubsequence(a, Tail(b))

NoConsecutiveRepeat(a) == \A j \in 1..(Len(a) - 1) : a[j] # a[j + 1]

\* The step hands a stage_update to send_json.
EmitsUpdate(session_id) ==
    /\ session_id \in DOMAIN ws
    /\ ws[session_id].pc = "sleep"
    /\ ws'[session_id].pc = "send_update"

\* C39: a stage_update is emitted only when the polled stage differs from
\* the last stage the observer reported, and the stages it reports (the
\* initial one included) are, in order and without consecutive repeats, a
\* subsequence of the stages the session went through.
C39_ReportedSubsequence ==
    /\ [](\A session_id \in DOMAIN ws :
            LET reported == StagesOf(ws[session_id].sent) IN
            /\ IsSubsequence(reported, sessions[session_id].hist)
            /\ NoConsecutiveRepeat(reported))
    /\ [][\A session_id \in DOMAIN ws :
            EmitsUpdate(session_id) =>
                LET reported == StagesOf(ws[session_id].sent) IN
                /\ ws'[session_id].out[1].type = "stage_update"
                /\ ws'[session_id].out[1].stage = sessions[session_id].stage
                /\ Some(sessions[session_id].stage) # ws[session_id].last_stage
                /\ sessions[session_id].stage # reported[Len(reported)]]_vars

\* C39 witness: an observer has ended after it reported three stages of a
\* session that went through more stages than that.
C39_Witness ==
    \E session_id \in DOMAIN ws :
        /\ Finished(session_id)
        /\ Len(StagesOf(ws[session_id].sent)) = 3
        /\ Cardinality({j \in DOMAIN ws[session_id].sent :
                           ws[session_id].sent[j].type = "stage_update"}) = 2
        /\ Len(sessions[session_id].hist) > 3


(***************************************************************************)
(* Progress of the observer.  The event loop resumes a coroutine whose     *)
(* sleep is over, and send_json to a connected client returns: an observer *)
(* that can take a step eventually takes one.  Nothing makes a client      *)
(* connect, stay or leave.                                                 *)
(***************************************************************************)
ObserverProgress(session_id) ==
    session_id \in DOMAIN ws /\ ObserverStep(session_id)

\* As ObservedEnv, with opinion and pairwise calls that all return a reply:
\* the session ends in COMPLETE, or in ERROR by its synthesis call.
ObservedLiveEnv ==
    [ObservedEnv EXCEPT
        !.opinion_outcomes = {OkReply(PlainText("answer"), 2, 3, 7)},
        !.review_outcomes =
           {OkReply(JsonObject(Some(JInt(7)), Some(JStr("fine", None))), 1, 1, 4)}]

InitObservedLive ==
    /\ sessions = << >>
    /\ run = << >>
    /\ now = 0
    /\ ws = << >>
    /\ env = ObservedLiveEnv
    /\ probe = None

SpecObservedLive ==
    /\ InitObservedLive
    /\ [][NextObserved]_vars
    /\ \A id \in 1..ObservedEnv.budget :
          WF_vars(SessionProgress(id)) /\ WF_vars(ObserverProgress(id))

\* The positions in sent of the final results.
Completes(frame) ==
    {j \in DOMAIN frame.sent : frame.sent[j].type = "complete"}

\* The observer has found its session.
Found(session_id) ==
    /\ session_id \in DOMAIN ws
    /\ \/ ws[session_id].pc = "send_started"
       \/ \E j \in DOMAIN ws[session_id].sent :
             ws[session_id].sent[j].type = "session_started"

\* C38: an observer that has found its session and whose client stays
\* connected eventually sends exactly one final message of type complete,
\* which carries the session as it is once COMPLETE or ERROR, and then stops;
\* it never builds or sends the final message while the session is in
\* another stage, and its polling never gets not-found for the session.
C38_FinalMessage ==
    /\ \A id \in 1..ObservedEnv.budget :
          Found(id) ~> (Finished(id) \/ (id \in DOMAIN ws /\ ~ws[id].connected))
    /\ [](\A id \in DOMAIN ws :
            LET frame == ws[id] IN
            /\ Cardinality(Completes(frame)) <= 1
            /\ \A j \in Completes(frame) :
                  /\ j = Len(frame.sent)
                  /\ frame.pc = "closed"
                  /\ Terminal(sessions[id])
                  /\ frame.sent[j].session = sessions[id]
            /\ frame.pc = "send_complete" =>
                  /\ Terminal(sessions[id])
                  /\ frame.out = Some(CompleteMessage(sessions[id]))
            /\ Found(id) =>
                  /\ GetSession(id) # None
                  /\ \A j \in DOMAIN frame.sent : frame.sent[j].type # "error")
    /\ [][\A id \in DOMAIN ws :
            ws[id].pc = "closed" => ws'[id] = ws[id]]_vars

\* C38 witness: an observer whose client stayed connected has ended with the
\* final result of a session in ERROR, its fourth message after the initial
\* state.
C38_Witness ==
    \E id \in DOMAIN ws :
        /\ Finished(id)
        /\ ws[id].connected
        /\ sessions[id].stage = ERROR
        /\ Len(ws[id].sent) = 4
        /\ ws[id].sent[1].type = "session_started"
        /\ ws[id].sent[4].session.stage = ERROR


\* The generation calls of outs that are in flight.
InFlight(outs) == {k \in DOMAIN outs : outs[k] = NoOutcome}

\* C32: the calls of the stages are strictly sequential.  The opinion calls
\* of a session are all issued in the step that starts it; the pairwise
\* calls are issued in one step, taken when every opinion call has resolved;
\* the synthesis call is issued in a step taken when every opinion call and
\* every pairwise call has resolved.
C32_CallsSequential ==
    [][\A id \in DOMAIN sessions' :
         LET n == Len(sessions'[id].agents) IN
         /\ id \notin DOMAIN sessions =>
               /\ run'[id].calls = [opinions |-> n, review |-> 0, synthesis |-> 0]
               /\ InFlight(run'[id].opinion_out) = 1..n
         /\ id \in DOMAIN sessions =>
               /\ run'[id].calls.opinions = run[id].calls.opinions
               /\ InFlight(run'[id].opinion_out) \subseteq InFlight(run[id].opinion_out)
               /\ run'[id].calls.review # run[id].calls.review =>
                     /\ InFlight(run[id].opinion_out) = {}
                     /\ run[id].calls = [opinions |-> n, review |-> 0, synthesis |-> 0]
                     /\ run'[id].calls.review = n * (n - 1)
                     /\ InFlight(run'[id].review_out) = 1..(n * (n - 1))
               /\ run'[id].calls.synthesis # run[id].calls.synthesis =>
                     /\ InFlight(run[id].opinion_out) = {}
                     /\ InFlight(run[id].review_out) = {}
                     /\ Len(run[id].review_out) = n * (n - 1)
                     /\ run[id].calls.synthesis = 0
                     /\ run'[id].calls.synthesis = 1
                     /\ run'[id].synthesis_out = Some(NoOutcome)]_vars

\* C32 witness: the synthesis call of a two-agent session is in flight after
\* its two opinion calls and its two pairwise calls resolved, one of each by
\* failing.
C32_Witness ==
    \E id \in DOMAIN sessions :
        /\ run[id].synthesis_out = Some(NoOutcome)
        /\ Len(run[id].opinion_out) = 2
        /\ \E k \in DOMAIN run[id].opinion_out : run[id].opinion_out[k].net = "timeout"
        /\ \E k \in DOMAIN run[id].opinion_out : run[id].opinion_out[k].net = "ok"
        /\ \E k \in DOMAIN run[id].review_out : run[id].review_out[k].net = "status"
        /\ \E k \in DOMAIN run[id].review_out : run[id].review_out[k].net = "ok"


\* The stages a session has been in.
StagesEntered(s) == {s.hist[k] : k \in DOMAIN s.hist}

\* C33: a stage sets session.stage on entry, before any of its calls is
\* issued, and its outputs and its metrics slot only on exit:
\* token_usage.stage1_opinions is set only together with the n opinions,
\* stage2_review only after stage1_opinions (and with the reviews), and
\* stage3_synthesis only after stage2_review and only together with
\* final_answer.
C33_EntryExitEffects ==
    \A id \in DOMAIN sessions :
        LET s == sessions[id]
            usage == s.token_usage
            pc == run[id].pc
        IN  /\ run[id].calls.opinions > 0 => OPINIONS \in StagesEntered(s)
            /\ run[id].calls.review > 0 => REVIEW \in StagesEntered(s)
            /\ run[id].calls.synthesis > 0 => SYNTHESIS \in StagesEntered(s)
            /\ pc = "gather_opinions" =>
                  /\ s.stage = OPINIONS
                  /\ s.opinions = << >>
                  /\ usage.stage1_opinions = None
            /\ usage.stage1_opinions # None <=> Len(s.opinions) = Len(s.agents)
            /\ pc = "gather_reviews" =>
                  /\ s.stage = REVIEW
                  /\ s.reviews = << >>
                  /\ usage.stage1_opinions # None
                  /\ usage.stage2_review = None
            /\ usage.stage2_review # None =>
                  /\ usage.stage1_opinions # None
                  /\ Stage2Exited(id)
            /\ s.reviews # << >> => usage.stage2_review # None
            /\ pc = "await_synthesis" =>
                  /\ s.stage = SYNTHESIS
                  /\ usage.stage2_review # None
                  /\ usage.stage3_synthesis = None
                  /\ s.final_answer = None
            /\ usage.stage3_synthesis # None <=> s.final_answer # None
            /\ usage.stage3_synthesis # None =>
                  /\ usage.stage2_review # None
                  /\ s.stage = COMPLETE

\* C33 witness: a session of two agents is in stage REVIEW with a pairwise
\* call resolved and one in flight: the slot of stage 1 is set with both
\* opinions, no review and no later slot is.
C33_Witness ==
    \E id \in DOMAIN sessions :
        /\ run[id].pc = "gather_reviews"
        /\ Len(sessions[id].opinions) = 2
        /\ sessions[id].token_usage.stage1_opinions # None
        /\ sessions[id].token_usage.stage2_review = None
        /\ sessions[id].reviews = << >>
        /\ InFlight(run[id].review_out) = {2}
        /\ run[id].review_out[1].net = "ok"


\* The text is a JSON object whose score member is the integer v.
IntegerScore(text, v) ==
    /\ text.json = "object"
    /\ text.score = Some(JInt(v))

\* C34: for a JSON object with an integer score the parsed score is that
\* score clamped to [1,10]: 1 for a score below 1, 10 for a score above 10,
\* the score itself within the range; for an object without a score member
\* it is 5.
C34_ScoreClamped ==
    (probe # None /\ "text" \in DOMAIN probe[1] /\ probe[1].result # None) =>
        LET text == probe[1].text
            res == probe[1].result[1]
        IN  /\ \A v \in (0 - 2)..MaxProbeScore :
                  IntegerScore(text, v) =>
                      /\ ~IsException(res)
                      /\ v < MinScore => res.value.score = MinScore
                      /\ v > MaxScore => res.value.score = MaxScore
                      /\ v \in MinScore..MaxScore => res.value.score = v
            /\ (text.json = "object" /\ text.score = None) =>
                  /\ ~IsException(res)
                  /\ res.value.score = DefaultScore

\* C34 witness: an object whose score is an integer below 1 has been parsed
\* to the score 1.
C34_Witness ==
    /\ probe # None
    /\ "text" \in DOMAIN probe[1]
    /\ probe[1].result # None
    /\ \E v \in (0 - 2)..0 : IntegerScore(probe[1].text, v)
    /\ ~IsException(probe[1].result[1])
    /\ probe[1].result[1].value.score = MinScore


\* The position of the first ranking of agent_id, going through the reviews
\* in list order and through the rankings of each in order: the position at
\* which the id enters the score map.
FirstRanked(reviews, agent_id) ==
    CHOOSE k \in DOMAIN AllRankings(reviews) :
        /\ AllRankings(reviews)[k].agent_id = agent_id
        /\ \A j \in 1..(k - 1) : AllRankings(reviews)[j].agent_id # agent_id

\* a and b received the same mean score.
MeanEqual(reviews, a, b) ==
    /\ ~MeanHigher(reviews, a, b)
    /\ ~MeanHigher(reviews, b, a)

\* C35: agents of equal mean score are cited in the order in which their
\* ids entered the score map (first occurrence as a ranking target, reviews
\* in list order and rankings in order), and that order also decides which
\* of the tied agents are within the top 3.
C35_TiesByInsertion ==
    \A s \in SessionsInView :
        s.final_answer # None =>
            LET cited == s.final_answer[1].sources_cited
                included == {cited[k] : k \in DOMAIN cited}
            IN  /\ \A a, b \in DOMAIN cited :
                      (a < b /\ MeanEqual(s.reviews, cited[a], cited[b])) =>
                          FirstRanked(s.reviews, cited[a])
                            < FirstRanked(s.reviews, cited[b])
                /\ \A out \in RankedIds(s.reviews) \ included :
                      \A c \in included :
                          MeanEqual(s.reviews, out, c) =>
                              FirstRanked(s.reviews, c)
                                < FirstRanked(s.reviews, out)

\* C35 witness: three agents are cited, the second and the third of equal
\* mean, and a fourth agent of that same mean is left out although its id
\* is lower than theirs.
C35_Witness ==
    \E s \in SessionsInView :
        /\ s.final_answer # None
        /\ Len(s.final_answer[1].sources_cited) = 3
        /\ MeanEqual(s.reviews, s.final_answer[1].sources_cited[2],
                     s.final_answer[1].sources_cited[3])
        /\ \E out \in RankedIds(s.reviews) :
              /\ \A k \in 1..3 : s.final_answer[1].sources_cited[k] # out
              /\ MeanEqual(s.reviews, out, s.final_answer[1].sources_cited[3])
              /\ IdRank(out) < IdRank(s.final_answer[1].sources_cited[2])


(***************************************************************************)
(* _aggregate_pairwise_results on its own: the results of the gather of    *)
(* stage 2 for a council of MaxAgents + 1 agents, in which some pairwise   *)
(* calls fail and some use more tokens than the others.                    *)
(***************************************************************************)
MaxDeviating == 2

\* What a pairwise call can meet instead of the common reply.
DeviatingOutcomes ==
    {Timeout("backend"),
     OkReply(JsonObject(Some(JInt(4)), Some(JStr("weak", None))), 2, 3, 5)}

\* The outcomes of the pairwise calls of a council of n agents: the common
\* reply, but for at most MaxDeviating calls.
ProbeCallOutcomes(n) ==
    LET tasks == 1..(n * (n - 1))
        common == OkReply(JsonObject(Some(JInt(7)), Some(JStr("fine", None))),
                          1, 1, 4)
    IN  UNION {{[k \in tasks |-> IF k \in DOMAIN dev THEN dev[k] ELSE common] :
                   dev \in [ks -> DeviatingOutcomes]} :
               ks \in {x \in SUBSET tasks : Cardinality(x) <= MaxDeviating}}

\* The results of the gather of stage 2 under the given outcomes.
ProbeGatherResults(agents, outcomes) ==
    LET pairs == PairSeq(Len(agents)) IN
    [k \in DOMAIN pairs |->
        GeneratePairwiseReview(
            AgentId(pairs[k][1]), agents[pairs[k][1]].name,
            agents[pairs[k][1]].model, AgentId(pairs[k][2]), None,
            outcomes[k])]

InitAggregate ==
    /\ sessions = << >>
    /\ run = << >>
    /\ now = 0
    /\ ws = << >>
    /\ env = BaseEnv
    /\ \E outcomes \in ProbeCallOutcomes(MaxAgents + 1) :
          probe = Some([kind |-> "aggregate",
                        task_metadata |-> TaskMetadata(ProbeAgents(MaxAgents + 1)),
                        results |-> ProbeGatherResults(ProbeAgents(MaxAgents + 1),
                                                       outcomes),
                        reviews |-> None])

\* One call of _aggregate_pairwise_results.
Aggregate ==
    /\ probe # None
    /\ probe[1].kind = "aggregate"
    /\ probe[1].reviews = None
    /\ probe' = Some([probe[1] EXCEPT !.reviews =
          Some(AggregatePairwiseResults(probe[1].task_metadata,
                                        probe[1].results))])
    /\ UNCHANGED << sessions, run, now, env, ws >>

NextAggregate == Aggregate

SpecAggregate == InitAggregate /\ [][NextAggregate]_vars

\* The results of the calls of reviewer_id that returned, in task order.
ReturnedBy(task_metadata, results, reviewer_id) ==
    LET mine == SelectSeq([k \in DOMAIN results |-> k],
                          LAMBDA k : /\ task_metadata[k].reviewer_id = reviewer_id
                                     /\ ~IsException(results[k]))
    IN  [j \in DOMAIN mine |-> results[mine[j]].value]

\* seq without its k-th element.
Without(seq, k) ==
    [j \in 1..(Len(seq) - 1) |-> IF j < k THEN seq[j] ELSE seq[j + 1]]

\* C36: the prompt_tokens and completion_tokens of each Review are the sums
\* of the token counts of the calls of its reviewer that returned, and its
\* rankings are those of these calls; a failed call adds no ranking and no
\* tokens to any Review, and the Reviews are what they are without it.
C36_TokensOfReturnedCalls ==
    (probe # None /\ "reviews" \in DOMAIN probe[1] /\ "results" \in DOMAIN probe[1]
       /\ probe[1].reviews # None) =>
        LET task_metadata == probe[1].task_metadata
            results == probe[1].results
            reviews == probe[1].reviews[1]
        IN  /\ \A x \in DOMAIN reviews :
                  LET mine == ReturnedBy(task_metadata, results,
                                         reviews[x].reviewer_id)
                  IN  /\ reviews[x].prompt_tokens =
                            SumSeq([j \in DOMAIN mine |-> mine[j].prompt_tokens])
                      /\ reviews[x].completion_tokens =
                            SumSeq([j \in DOMAIN mine |-> mine[j].completion_tokens])
                      /\ Len(reviews[x].rankings) = Len(mine)
                      /\ \A j \in DOMAIN mine :
                            /\ reviews[x].rankings[j].agent_id = mine[j].target_id
                            /\ reviews[x].rankings[j].score = mine[j].score
            /\ SumSeq([x \in DOMAIN reviews |-> Len(reviews[x].rankings)])
                 = Cardinality({k \in DOMAIN results : ~IsException(results[k])})
            /\ \A k \in DOMAIN results :
                  IsException(results[k]) =>
                      reviews = AggregatePairwiseResults(Without(task_metadata, k),
                                                         Without(results, k))

\* C36 witness: a reviewer has lost one of its two calls and its Review
\* carries the tokens of the other alone, which used more tokens than the
\* calls of the other reviewers.
C36_Witness ==
    /\ probe # None
    /\ "reviews" \in DOMAIN probe[1]
    /\ "results" \in DOMAIN probe[1]
    /\ probe[1].reviews # None
    /\ IsException(probe[1].results[1])
    /\ ~IsException(probe[1].results[2])
    /\ Len(probe[1].reviews[1]) = 3
    /\ probe[1].reviews[1][1].reviewer_id = AgentId(1)
    /\ Len(probe[1].reviews[1][1].rankings) = 1
    /\ probe[1].reviews[1][1].prompt_tokens = 2
    /\ probe[1].reviews[1][1].completion_tokens = 3
    /\ probe[1].reviews[1][2].prompt_tokens = 2
    /\ probe[1].reviews[1][2].completion_tokens = 2


\* C37: the step that ends a session in ERROR changes its error, stage and
\* updated_at only (and the stage history kept here): the opinions, the
\* reviews, the token usages and every other field stay as they were when
\* the exception was raised.
C37_ErrorPathFrame ==
    [][\A id \in DOMAIN sessions :
         (sessions[id].stage # ERROR /\ sessions'[id].stage = ERROR) =>
             /\ sessions'[id].error # None
             /\ sessions'[id].updated_at = now
             /\ sessions'[id] =
                   [sessions[id] EXCEPT !.error = sessions'[id].error,
                                        !.stage = ERROR,
                                        !.updated_at = now,
                                        !.hist = Append(@, ERROR)]]_vars

\* C37 witness: a session has ended in ERROR on an HTTP error of its
\* synthesis call and still holds both opinions, both reviews and the token
\* usage of the two stages that had exited.
C37_Witness ==
    \E id \in DOMAIN sessions :
        /\ sessions[id].stage = ERROR
        /\ sessions[id].error = Some("Ollama API error")
        /\ Len(sessions[id].opinions) = 2
        /\ Len(sessions[id].reviews) = 2
        /\ sessions[id].token_usage.stage1_opinions # None
        /\ sessions[id].token_usage.stage2_review # None
        /\ sessions[id].token_usage.stage2_review[1].total_tokens > 0
        /\ sessions[id].token_usage.stage3_synthesis = None

====
